---- MODULE Spec2Model ----
(***************************************************************************)
(* Order-book replica (orderbook/engine.py), its feed listener (main.py)   *)
(* and the paper matcher (paper_trading.py) as state machines.             *)
(*                                                                         *)
(* Prices and quantities are floats in the source; here they are integer   *)
(* ticks and lots.  A Python dict / SortedDict is a function whose DOMAIN  *)
(* is the set of stored keys, so a stored level of quantity 0 and an       *)
(* absent level are different things.                                      *)
(***************************************************************************)
EXTENDS Integers, Sequences, FiniteSets, TLC

\* ---------------------------------------------------------------- bounds
MaxPrice == 2
MaxQty == 2
MaxId == 2
MaxDeltas == 1
MaxOfiLen == 1
MaxCvd == 1
MaxUpdates == 3
MaxOrders == 1
MaxStream == 1
MaxLimitOrders == 2
MaxMarketOrders == 2
\* TWAP: slices per instance, seconds per slice, clock readings, orders one
\* instance is followed for.
MaxSlices == 2
MaxInterval == 2
MaxTime == 3
MaxTwapOrders == 3
MaxWindowUpdates == 52

\* ------------------------------------------------------- program constants
\* Python's None, for last_update_id and the remembered best prices.
None == -1
\* deque(maxlen=50)
OfiWindowMaxLen == 50
\* A string float() raises ValueError on, in the place of a price or quantity.
Malformed == -2

Prices == 1..MaxPrice
Ids == 0..MaxId

\* ------------------------------------------------------------ dict helpers
EmptyDict == [k \in {} |-> 0]

DictSet(d, k, v) == [x \in (DOMAIN d) \cup {k} |-> IF x = k THEN v ELSE d[x]]

DictDel(d, k) == [x \in (DOMAIN d) \ {k} |-> d[x]]

\* SortedDict.peekitem(0): the item with the smallest key.
peekitem0(d) ==
    LET k == CHOOSE x \in DOMAIN d : \A y \in DOMAIN d : x <= y
    IN  <<k, d[k]>>

\* Faulty variant of DequeAppend: a full deque drops the new entry.
DequeAppendDropsNew(w, x) ==
    IF Len(w) >= OfiWindowMaxLen THEN w ELSE Append(w, x)

\* deque.append on a deque with a maxlen: the oldest entry is evicted.
DequeAppend(w, x) ==
    IF Len(w) >= OfiWindowMaxLen THEN Append(Tail(w), x) ELSE Append(w, x)

\* --------------------------------------------------------------- metrics.py
\* Faulty variant of calculate_ofi_step: the ask term is added.
calculate_ofi_step_adds_ask(current_bid, current_bid_qty, prev_bid, prev_bid_qty, current_ask, current_ask_qty, prev_ask, prev_ask_qty) ==
    LET e_bid == IF current_bid > prev_bid THEN current_bid_qty
                 ELSE IF current_bid < prev_bid THEN 0 - prev_bid_qty
                 ELSE current_bid_qty - prev_bid_qty
        e_ask == IF current_ask < prev_ask THEN current_ask_qty
                 ELSE IF current_ask > prev_ask THEN 0 - prev_ask_qty
                 ELSE current_ask_qty - prev_ask_qty
    IN  e_bid + e_ask

calculate_ofi_step(current_bid, current_bid_qty, prev_bid, prev_bid_qty, current_ask, current_ask_qty, prev_ask, prev_ask_qty) ==
    LET e_bid == IF current_bid > prev_bid THEN current_bid_qty
                 ELSE IF current_bid < prev_bid THEN 0 - prev_bid_qty
                 ELSE current_bid_qty - prev_bid_qty
        e_ask == IF current_ask < prev_ask THEN current_ask_qty
                 ELSE IF current_ask > prev_ask THEN 0 - prev_ask_qty
                 ELSE current_ask_qty - prev_ask_qty
    IN  e_bid - e_ask

\* ------------------------------------------------------ OrderBook (engine.py)
\* OrderBook.__init__
NewOrderBook ==
    [ bids |-> EmptyDict, asks |-> EmptyDict, last_update_id |-> None,
      prev_best_bid |-> None, prev_best_bid_qty |-> None,
      prev_best_ask |-> None, prev_best_ask_qty |-> None,
      ofi_window |-> <<>>, cvd |-> 0 ]

get_best_bid(self) ==
    IF DOMAIN self.bids = {} THEN None ELSE 0 - peekitem0(self.bids)[1]

get_best_ask(self) ==
    IF DOMAIN self.asks = {} THEN None ELSE peekitem0(self.asks)[1]

\* OrderBook._update_ofi_state
update_ofi_state(self) ==
    LET hasBid == DOMAIN self.bids # {}
        hasAsk == DOMAIN self.asks # {}
    IN  [self EXCEPT
           !.prev_best_bid     = IF hasBid THEN 0 - peekitem0(self.bids)[1] ELSE None,
           !.prev_best_bid_qty = IF hasBid THEN peekitem0(self.bids)[2] ELSE 0,
           !.prev_best_ask     = IF hasAsk THEN peekitem0(self.asks)[1] ELSE None,
           !.prev_best_ask_qty = IF hasAsk THEN peekitem0(self.asks)[2] ELSE 0]

\* OrderBook._calculate_and_store_ofi
calculate_and_store_ofi(self) ==
    LET hasBid == DOMAIN self.bids # {}
        hasAsk == DOMAIN self.asks # {}
        curr_bid     == IF hasBid THEN 0 - peekitem0(self.bids)[1] ELSE 0
        curr_bid_qty == IF hasBid THEN peekitem0(self.bids)[2] ELSE 0
        curr_ask     == IF hasAsk THEN peekitem0(self.asks)[1] ELSE 0
        curr_ask_qty == IF hasAsk THEN peekitem0(self.asks)[2] ELSE 0
        push == /\ self.prev_best_bid # None
                /\ self.prev_best_ask # None
                /\ curr_bid > 0
                /\ curr_ask > 0
        ofi_step == calculate_ofi_step(curr_bid, curr_bid_qty,
                                       self.prev_best_bid, self.prev_best_bid_qty,
                                       curr_ask, curr_ask_qty,
                                       self.prev_best_ask, self.prev_best_ask_qty)
    IN  [self EXCEPT
           !.ofi_window = IF push THEN DequeAppend(@, ofi_step) ELSE @,
           !.prev_best_bid = curr_bid,
           !.prev_best_bid_qty = curr_bid_qty,
           !.prev_best_ask = curr_ask,
           !.prev_best_ask_qty = curr_ask_qty]

\* Faulty variant of BidDelta: qty is taken as a change of the level's
\* quantity, not as its new quantity.
BidDeltaAdds(bids, price, qty) ==
    IF qty = 0
    THEN (IF (0 - price) \in DOMAIN bids THEN DictDel(bids, 0 - price) ELSE bids)
    ELSE DictSet(bids, 0 - price,
                 (IF (0 - price) \in DOMAIN bids THEN bids[0 - price] ELSE 0) + qty)

\* Faulty variant of BidDelta: a qty of 0 is stored like any other quantity.
BidDeltaKeepsZero(bids, price, qty) == DictSet(bids, 0 - price, qty)

\* One bid delta of apply_diff: the key is -price.
BidDelta(bids, price, qty) ==
    IF qty = 0
    THEN (IF (0 - price) \in DOMAIN bids THEN DictDel(bids, 0 - price) ELSE bids)
    ELSE DictSet(bids, 0 - price, qty)

\* One ask delta of apply_diff.
AskDelta(asks, price, qty) ==
    IF qty = 0
    THEN (IF price \in DOMAIN asks THEN DictDel(asks, price) ELSE asks)
    ELSE DictSet(asks, price, qty)

\* for price_str, qty_str in event["b"]: ...
RECURSIVE UpdateBids(_, _)
UpdateBids(bids, b) ==
    IF b = <<>> THEN bids
    ELSE UpdateBids(BidDelta(bids, b[1][1], b[1][2]), Tail(b))

\* for price_str, qty_str in event["a"]: ...
RECURSIVE UpdateAsks(_, _)
UpdateAsks(asks, a) ==
    IF a = <<>> THEN asks
    ELSE UpdateAsks(AskDelta(asks, a[1][1], a[1][2]), Tail(a))

\* The [price, qty] pairs of a list up to the first whose float(price) or
\* float(qty) raises.
RECURSIVE Parsable(_)
Parsable(pairs) ==
    IF pairs = <<>> THEN <<>>
    ELSE IF pairs[1][1] = Malformed \/ pairs[1][2] = Malformed THEN <<>>
    ELSE <<pairs[1]>> \o Parsable(Tail(pairs))

\* The value of a call: the object afterwards and the exception raised ("" when
\* the call returns normally).
Return(self) == [self |-> self, exc |-> ""]
Raise(self, what) == [self |-> self, exc |-> what]

\* Faulty variant of StaleCheck: an event ending at last_update_id is not stale.
StaleCheckStrictlyBelow(self, u) == u < self.last_update_id

\* Faulty variant of StrictCheck: an overlapping event passes.
StrictCheckNoGapOnly(self, U) == U <= self.last_update_id + 1

\* Faulty variant of BridgingCheck: the lower bound U is not looked at.
BridgingCheckUpperOnly(self, U, u) == self.last_update_id + 1 <= u

\* Faulty variant of ApplyDeltas: last_update_id is set to U.
ApplyDeltasSetsFirstId(self, event) ==
    [self EXCEPT !.bids = UpdateBids(@, event.b),
                 !.asks = UpdateAsks(@, event.a),
                 !.last_update_id = event.U]

\* if u <= self.last_update_id: return
StaleCheck(self, u) == u <= self.last_update_id

\* if U != self.last_update_id + 1: raise Exception("ID GAP")
StrictCheck(self, U) == U = self.last_update_id + 1

\* if not (U <= self.last_update_id + 1 <= u): raise Exception("Bridging failed")
BridgingCheck(self, U, u) == U <= self.last_update_id + 1 /\ self.last_update_id + 1 <= u

\* The two delta loops and self.last_update_id = u.
ApplyDeltas(self, event) ==
    [self EXCEPT !.bids = UpdateBids(@, event.b),
                 !.asks = UpdateAsks(@, event.a),
                 !.last_update_id = event.u]

\* OrderBook.apply_diff.  With last_update_id None the comparison u <= None
\* raises TypeError.  The delta loops work in place: a delta float() rejects
\* raises ValueError after the deltas before it have been applied, and
\* before last_update_id is assigned.
apply_diff(self, event, strict) ==
    IF self.last_update_id = None THEN Raise(self, "TypeError")
    ELSE IF StaleCheck(self, event.u) THEN Return(self)
    ELSE IF strict /\ ~StrictCheck(self, event.U) THEN Raise(self, "ID GAP")
    ELSE IF ~strict /\ ~BridgingCheck(self, event.U, event.u) THEN Raise(self, "Bridging failed")
    ELSE IF Parsable(event.b) # event.b
    THEN Raise([self EXCEPT !.bids = UpdateBids(@, Parsable(event.b))], "ValueError")
    ELSE IF Parsable(event.a) # event.a
    THEN Raise([self EXCEPT !.bids = UpdateBids(@, event.b),
                            !.asks = UpdateAsks(@, Parsable(event.a))], "ValueError")
    ELSE Return(calculate_and_store_ofi(ApplyDeltas(self, event)))

\* for price, qty in data["bids"]: self.bids[-float(price)] = float(qty)
RECURSIVE LoadBids(_, _)
LoadBids(bids, levels) ==
    IF levels = <<>> THEN bids
    ELSE LoadBids(DictSet(bids, 0 - levels[1][1], levels[1][2]), Tail(levels))

\* for price, qty in data["asks"]: self.asks[float(price)] = float(qty)
RECURSIVE LoadAsks(_, _)
LoadAsks(asks, levels) ==
    IF levels = <<>> THEN asks
    ELSE LoadAsks(DictSet(asks, levels[1][1], levels[1][2]), Tail(levels))

\* OrderBook.load_snapshot.  A failed request raises before anything is
\* assigned and the except clause swallows it.  A level float() rejects
\* raises after last_update_id is assigned, the sides are cleared and the
\* levels before it are loaded, and before _update_ofi_state; the except
\* clause swallows that too.
load_snapshot(self, response) ==
    IF ~response.ok THEN self
    ELSE LET data == response.data
             cleared == [self EXCEPT !.last_update_id = data.lastUpdateId,
                                     !.bids = EmptyDict,
                                     !.asks = EmptyDict]
         IN  IF Parsable(data.bids) # data.bids
             THEN [cleared EXCEPT !.bids = LoadBids(EmptyDict, Parsable(data.bids))]
             ELSE IF Parsable(data.asks) # data.asks
             THEN [cleared EXCEPT !.bids = LoadBids(EmptyDict, data.bids),
                                  !.asks = LoadAsks(EmptyDict, Parsable(data.asks))]
             ELSE update_ofi_state(
                      [cleared EXCEPT !.bids = LoadBids(EmptyDict, data.bids),
                                      !.asks = LoadAsks(EmptyDict, data.asks)])

\* Faulty variant of process_trade: every trade counts as a buy.
process_trade_adds(self, trade) == [self EXCEPT !.cvd = @ + trade.q]

\* OrderBook.process_trade
process_trade(self, trade) ==
    IF trade.m THEN [self EXCEPT !.cvd = @ - trade.q]
    ELSE [self EXCEPT !.cvd = @ + trade.q]

\* ------------------------------------------------------------------ inputs
\* A [price, qty] pair of a depth event: qty 0 asks for the level's removal.
Deltas == Prices \X (0..MaxQty)

\* A [price, qty] pair of a snapshot: the exchange lists only levels it holds.
Levels == Prices \X (1..MaxQty)

SeqsUpTo(S, n) == UNION {[1..k -> S] : k \in 0..n}

\* Depth events {U, u, b, a} with U <= u and at most MaxDeltas deltas in all.
DepthEvents ==
    {[U |-> x, u |-> y, b |-> bs, a |-> as] :
        x \in Ids, y \in Ids, bs \in SeqsUpTo(Deltas, MaxDeltas), as \in SeqsUpTo(Deltas, MaxDeltas)}

Events == {e \in DepthEvents : e.U <= e.u /\ Len(e.b) + Len(e.a) <= MaxDeltas}

\* The exchange's snapshot lists bids from the highest price down and asks
\* from the lowest price up, and its own book is never crossed.
BidLists == {s \in SeqsUpTo(Levels, MaxPrice) : \A i \in 1..Len(s), j \in 1..Len(s) : i < j => s[i][1] > s[j][1]}

AskLists == {s \in SeqsUpTo(Levels, MaxPrice) : \A i \in 1..Len(s), j \in 1..Len(s) : i < j => s[i][1] < s[j][1]}

SnapshotData ==
    {[lastUpdateId |-> i, bids |-> bl, asks |-> al] : i \in Ids, bl \in BidLists, al \in AskLists}

Snapshots == {d \in SnapshotData : (d.bids # <<>> /\ d.asks # <<>>) => d.bids[1][1] < d.asks[1][1]}

\* What requests.get(...) gives load_snapshot: a snapshot, or a failure.
Responses == {[ok |-> TRUE, data |-> d] : d \in Snapshots} \cup {[ok |-> FALSE, data |-> <<>>]}

\* Trade messages {p, q, m}.
Trades == [p : Prices, q : 1..MaxQty, m : BOOLEAN]

\* ------------------------------------------------------------- the exchange
\* What api.binance.com and the depth stream serve: a book changed by one
\* update at a time, each update taking the next id, and depth events that
\* give, for the updates U..u, the final quantity of every level they touched
\* (0 for a level that is gone).
ExchangeStart ==
    [bids |-> EmptyDict, asks |-> EmptyDict, id |-> 0, first |-> 1,
     touched_b |-> {}, touched_a |-> {}]

QtyAt(d, price) == IF price \in DOMAIN d THEN d[price] ELSE 0

\* The levels of d at the prices S, lowest price first.
RECURSIVE Ascending(_, _)
Ascending(d, S) ==
    IF S = {} THEN <<>>
    ELSE LET p == CHOOSE x \in S : \A y \in S : x <= y
         IN  <<<<p, QtyAt(d, p)>>>> \o Ascending(d, S \ {p})

\* The levels of d at the prices S, highest price first.
RECURSIVE Descending(_, _)
Descending(d, S) ==
    IF S = {} THEN <<>>
    ELSE LET p == CHOOSE x \in S : \A y \in S : x >= y
         IN  <<<<p, QtyAt(d, p)>>>> \o Descending(d, S \ {p})

\* GET /api/v3/depth answered from the exchange's book.
SnapshotOf(ex) ==
    [ok |-> TRUE,
     data |-> [lastUpdateId |-> ex.id,
               bids |-> Descending(ex.bids, DOMAIN ex.bids),
               asks |-> Ascending(ex.asks, DOMAIN ex.asks)]]

\* The depth event for the updates not yet published.
PendingEvent(ex) ==
    [U |-> ex.first, u |-> ex.id,
     b |-> Descending(ex.bids, ex.touched_b),
     a |-> Ascending(ex.asks, ex.touched_a)]

\* One level of the exchange's book set to qty; qty 0 takes the level away.
SetLevel(d, price, qty) == IF qty = 0 THEN DictDel(d, price) ELSE DictSet(d, price, qty)

Uncrossed(bids, asks) == \A b \in DOMAIN bids, a \in DOMAIN asks : b < a

\* ------------------------------------------- PaperTradingEngine (paper_trading.py)
\* USD amounts are counted in units of 1 / UsdScale dollar, so that the fee
\* rates 0.0002 and 0.0004 are the integers MakerFee and TakerFee.  A price
\* handed to finalize_fill is the fraction num / den: the average price of a
\* walk of the book is total_cost / filled_qty.
UsdScale == 10000
InitialBalanceUsd == 100000
MakerFee == 2
TakerFee == 4

Rat(num, den) == [num |-> num, den |-> den]

\* Order(...) as place_order builds it: status PENDING, nothing filled.
NewOrder(order_id, side, order_type, quantity, price) ==
    [id |-> order_id, side |-> side, order_type |-> order_type,
     quantity |-> quantity, price |-> price, status |-> "PENDING",
     filled_quantity |-> 0, average_price |-> Rat(0, 1), processed_volume |-> 0]

\* PaperTradingEngine.__init__.  orders holds the keys of the dict; the Order
\* objects are in the heap, where the suspended coroutines reach them too.
PaperTradingEngine(initial_balance_usd) ==
    [balance_usd |-> initial_balance_usd * UsdScale, balance_btc |-> 0,
     maker_fee |-> MakerFee, taker_fee |-> TakerFee,
     orders |-> {}, open_orders |-> <<>>,
     realized_pnl |-> 0, total_volume_traded |-> 0, fees_enabled |-> TRUE]

\* PaperTradingEngine(): the initial balance is the default.
NewPaperTradingEngine == PaperTradingEngine(InitialBalanceUsd)

\* The engine with the Order objects: what a method reads and writes.
Machine(eng, objs) == [engine |-> eng, heap |-> objs]

Done(m) == [m |-> m, exc |-> ""]
Fail(m, what) == [m |-> m, exc |-> what]

InList(list, x) == \E i \in 1..Len(list) : list[i] = x

\* list.remove(x): the first x goes.
RECURSIVE ListRemove(_, _)
ListRemove(list, x) ==
    IF list = <<>> THEN <<>>
    ELSE IF list[1] = x THEN Tail(list)
    ELSE <<list[1]>> \o ListRemove(Tail(list), x)

\* The objects still referenced: by the dict or by a suspended coroutine.
Collect(objs, keep) == [k \in (DOMAIN objs) \cap keep |-> objs[k]]

\* PaperTradingEngine.reset
reset(m) ==
    [m EXCEPT !.engine.balance_usd = InitialBalanceUsd * UsdScale,
              !.engine.balance_btc = 0,
              !.engine.orders = {},
              !.engine.open_orders = <<>>,
              !.engine.realized_pnl = 0,
              !.engine.total_volume_traded = 0]

\* PaperTradingEngine.set_fees
set_fees(m, enabled) == [m EXCEPT !.engine.fees_enabled = enabled]

\* Faulty variant of finalize_fill: an order filled for less than its quantity
\* keeps its status.
finalize_fill_keeps_partial(m, oid, qty, price, is_maker) ==
    LET order == m.heap[oid]
        fee_rate == IF is_maker THEN m.engine.maker_fee ELSE m.engine.taker_fee
        cost == (qty * price.num * UsdScale) \div price.den
        fee == IF m.engine.fees_enabled THEN (cost * fee_rate) \div UsdScale ELSE 0
    IN  [m EXCEPT
           !.engine.balance_usd = IF order.side = "BUY" THEN (@ - cost) - fee ELSE (@ + cost) - fee,
           !.engine.balance_btc = IF order.side = "BUY" THEN @ + qty ELSE @ - qty,
           !.engine.total_volume_traded = @ + cost,
           !.heap[oid].filled_quantity = qty,
           !.heap[oid].average_price = price,
           !.heap[oid].status = IF qty < order.quantity THEN @ ELSE "FILLED"]

\* Faulty variant of finalize_fill: a SELL is credited its fee.
finalize_fill_credits_sell_fee(m, oid, qty, price, is_maker) ==
    LET order == m.heap[oid]
        fee_rate == IF is_maker THEN m.engine.maker_fee ELSE m.engine.taker_fee
        cost == (qty * price.num * UsdScale) \div price.den
        fee == IF m.engine.fees_enabled THEN (cost * fee_rate) \div UsdScale ELSE 0
    IN  [m EXCEPT
           !.engine.balance_usd = IF order.side = "BUY" THEN (@ - cost) - fee ELSE (@ + cost) + fee,
           !.engine.balance_btc = IF order.side = "BUY" THEN @ + qty ELSE @ - qty,
           !.engine.total_volume_traded = @ + cost,
           !.heap[oid].filled_quantity = qty,
           !.heap[oid].average_price = price,
           !.heap[oid].status = "FILLED"]

\* PaperTradingEngine.get_portfolio_snapshot; current_price is a fraction, and
\* the equity is balance_usd plus a fraction over the same denominator:
\* whole + num / den.
get_portfolio_snapshot(eng, current_price) ==
    [usd |-> eng.balance_usd,
     btc |-> eng.balance_btc,
     equity |-> IF current_price.num > 0
                THEN [whole |-> eng.balance_usd,
                      num |-> eng.balance_btc * current_price.num * UsdScale,
                      den |-> current_price.den]
                ELSE [whole |-> eng.balance_usd, num |-> 0, den |-> 1],
     fees_enabled |-> eng.fees_enabled,
     open_orders |-> Len(eng.open_orders)]

\* PaperTradingEngine._finalize_fill
finalize_fill(m, oid, qty, price, is_maker) ==
    LET order == m.heap[oid]
        fee_rate == IF is_maker THEN m.engine.maker_fee ELSE m.engine.taker_fee
        cost == (qty * price.num * UsdScale) \div price.den
        fee == IF m.engine.fees_enabled THEN (cost * fee_rate) \div UsdScale ELSE 0
    IN  [m EXCEPT
           !.engine.balance_usd = IF order.side = "BUY" THEN (@ - cost) - fee ELSE (@ + cost) - fee,
           !.engine.balance_btc = IF order.side = "BUY" THEN @ + qty ELSE @ - qty,
           !.engine.total_volume_traded = @ + cost,
           !.heap[oid].filled_quantity = qty,
           !.heap[oid].average_price = price,
           !.heap[oid].status = "FILLED"]

\* Faulty variant of Items: the levels come worst first.
ItemsWorstFirst(d) == Descending(d, DOMAIN d)

\* list(order_book.asks.items()) or list(order_book.bids.items()): the items of
\* a SortedDict come in the order of their keys.
Items(d) == Ascending(d, DOMAIN d)

Abs(x) == IF x < 0 THEN 0 - x ELSE x

Min(x, y) == IF x <= y THEN x ELSE y

\* Faulty variant of WalkBook: a level is taken whole.
RECURSIVE WalkBookWholeLevels(_, _, _)
WalkBookWholeLevels(liquidity, remaining_qty, total_cost) ==
    IF liquidity = <<>> \/ remaining_qty <= 0
    THEN [remaining_qty |-> remaining_qty, total_cost |-> total_cost]
    ELSE LET price == Abs(liquidity[1][1])
             fill_qty == liquidity[1][2]
         IN  WalkBookWholeLevels(Tail(liquidity), remaining_qty - fill_qty, total_cost + fill_qty * price)

\* for raw_price, vol in liquidity: ...
RECURSIVE WalkBook(_, _, _)
WalkBook(liquidity, remaining_qty, total_cost) ==
    IF liquidity = <<>> \/ remaining_qty <= 0
    THEN [remaining_qty |-> remaining_qty, total_cost |-> total_cost]
    ELSE LET price == Abs(liquidity[1][1])
             fill_qty == Min(remaining_qty, liquidity[1][2])
         IN  WalkBook(Tail(liquidity), remaining_qty - fill_qty, total_cost + fill_qty * price)

\* PaperTradingEngine.process_market_order
process_market_order(m, order_id, book) ==
    IF order_id \notin m.engine.orders THEN m
    ELSE IF m.heap[order_id].status = "FILLED" THEN m
    ELSE LET order == m.heap[order_id]
             liquidity == IF order.side = "BUY" THEN Items(book.asks) ELSE Items(book.bids)
             w == WalkBook(liquidity, order.quantity, 0)
             filled_qty == order.quantity - w.remaining_qty
             avg_price == IF filled_qty > 0 THEN Rat(w.total_cost, filled_qty) ELSE Rat(0, 1)
         IN  finalize_fill(m, order_id, filled_qty, avg_price, FALSE)

\* self._finalize_fill(order, order.quantity, order.price, is_maker=True)
\* followed by self.open_orders.remove(oid); guarded tells that the remove
\* stands behind `if oid in self.open_orders`.
FillAndRemove(m, oid, guarded) ==
    LET f == finalize_fill(m, oid, m.heap[oid].quantity, Rat(m.heap[oid].price, 1), TRUE)
    IN  IF InList(f.engine.open_orders, oid)
        THEN Done([f EXCEPT !.engine.open_orders = ListRemove(@, oid)])
        ELSE IF guarded THEN Done(f)
        ELSE Fail(f, "ValueError")

\* Faulty variant of LimitStep: the order is filled as soon as the volume seen
\* at its price reaches its quantity.
LimitStepAtQuantity(m, oid, trade) ==
    IF oid \notin m.engine.orders THEN Fail(m, "KeyError")
    ELSE LET order == m.heap[oid]
             counted == [m EXCEPT !.heap[oid].processed_volume = @ + trade.q]
         IN  IF order.side = "BUY"
             THEN IF trade.p < order.price THEN FillAndRemove(m, oid, FALSE)
                  ELSE IF trade.p = order.price /\ trade.m
                  THEN IF counted.heap[oid].processed_volume >= order.quantity
                       THEN FillAndRemove(counted, oid, FALSE)
                       ELSE Done(counted)
                  ELSE Done(m)
             ELSE IF trade.p > order.price THEN FillAndRemove(m, oid, FALSE)
                  ELSE IF trade.p = order.price /\ ~trade.m
                  THEN IF counted.heap[oid].processed_volume >= order.quantity
                       THEN FillAndRemove(counted, oid, TRUE)
                       ELSE Done(counted)
                  ELSE Done(m)

\* The body of `for oid in list(self.open_orders)` for one order and one trade.
LimitStep(m, oid, trade) ==
    IF oid \notin m.engine.orders THEN Fail(m, "KeyError")
    ELSE LET order == m.heap[oid]
             counted == [m EXCEPT !.heap[oid].processed_volume = @ + trade.q]
         IN  IF order.side = "BUY"
             THEN IF trade.p < order.price THEN FillAndRemove(m, oid, FALSE)
                  ELSE IF trade.p = order.price /\ trade.m
                  THEN IF counted.heap[oid].processed_volume > order.quantity
                       THEN FillAndRemove(counted, oid, FALSE)
                       ELSE Done(counted)
                  ELSE Done(m)
             ELSE IF trade.p > order.price THEN FillAndRemove(m, oid, FALSE)
                  ELSE IF trade.p = order.price /\ ~trade.m
                  THEN IF counted.heap[oid].processed_volume > order.quantity
                       THEN FillAndRemove(counted, oid, TRUE)
                       ELSE Done(counted)
                  ELSE Done(m)

\* for oid in list(self.open_orders): ...
RECURSIVE LimitLoop(_, _, _)
LimitLoop(m, oids, trade) ==
    IF oids = <<>> THEN Done(m)
    ELSE LET r == LimitStep(m, oids[1], trade)
         IN  IF r.exc # "" THEN r ELSE LimitLoop(r.m, Tail(oids), trade)

\* PaperTradingEngine.process_limit_orders
RECURSIVE process_limit_orders(_, _)
process_limit_orders(m, trade_stream) ==
    IF trade_stream = <<>> THEN Done(m)
    ELSE LET r == LimitLoop(m, m.engine.open_orders, trade_stream[1])
         IN  IF r.exc # "" THEN r ELSE process_limit_orders(r.m, Tail(trade_stream))

\* PaperTradingEngine.cancel_order
cancel_order(m, order_id) ==
    IF InList(m.engine.open_orders, order_id)
    THEN LET removed == [m EXCEPT !.engine.open_orders = ListRemove(@, order_id)]
         IN  IF order_id \notin m.engine.orders THEN Fail(removed, "KeyError")
             ELSE Done([removed EXCEPT !.heap[order_id].status = "CANCELLED"])
    ELSE Done(m)

\* What cancel_order returns when it returns: True after the removal, False
\* otherwise.
cancel_order_returns(m, order_id) == InList(m.engine.open_orders, order_id)

\* What cancel_all_orders returns when it returns: count = len(self.open_orders).
cancel_all_orders_returns(m) == Len(m.engine.open_orders)

\* for order_id in list(self.open_orders): self.orders[order_id].status = CANCELLED
RECURSIVE CancelLoop(_, _)
CancelLoop(m, oids) ==
    IF oids = <<>> THEN Done(m)
    ELSE IF oids[1] \notin m.engine.orders THEN Fail(m, "KeyError")
    ELSE CancelLoop([m EXCEPT !.heap[oids[1]].status = "CANCELLED"], Tail(oids))

\* PaperTradingEngine.cancel_all_orders
cancel_all_orders(m) ==
    LET r == CancelLoop(m, m.engine.open_orders)
    IN  IF r.exc # "" THEN r
        ELSE Done([r.m EXCEPT !.engine.open_orders = <<>>])

\* PaperTradingEngine.place_order up to its await: the Order is built and
\* stored under a fresh id.
place_order_submit(m, order_id, side, order_type, quantity, price) ==
    [m EXCEPT !.engine.orders = @ \cup {order_id},
              !.heap = DictSet(@, order_id, NewOrder(order_id, side, order_type, quantity, price))]

\* PaperTradingEngine.place_order cancelled in its await: CancelledError
\* leaves asyncio.sleep and the rest of the method is not run.
place_order_cancelled(m, order_id) == m

\* PaperTradingEngine.place_order after its await: the ack.
place_order_ack(m, order_id) ==
    IF m.heap[order_id].order_type = "LIMIT"
    THEN [m EXCEPT !.heap[order_id].status = "OPEN",
                   !.engine.open_orders = Append(@, order_id)]
    ELSE m

\* ------------------------------------- the ladder payload (engine.py, metrics.py)
\* s[:n]
Take(s, n) == SubSeq(s, 1, Min(n, Len(s)))

\* sum(q for _, q in levels)
RECURSIVE SumQty(_)
SumQty(levels) ==
    IF levels = <<>> THEN 0 ELSE levels[1][2] + SumQty(Tail(levels))

\* sum(self.ofi_window)
RECURSIVE Sum(_)
Sum(w) == IF w = <<>> THEN 0 ELSE w[1] + Sum(Tail(w))

\* Faulty variant of top_levels: the whole side, whatever the depth.
top_levels_whole_side(self, side, depth) ==
    IF side = "bids"
    THEN LET t == Items(self.bids)
         IN  [i \in 1..Len(t) |-> <<0 - t[i][1], t[i][2]>>]
    ELSE IF side = "asks" THEN Items(self.asks)
    ELSE <<>>

\* OrderBook.top_levels: [price, qty] pairs, the first depth items of the side.
top_levels(self, side, depth) ==
    IF side = "bids"
    THEN LET t == Take(Items(self.bids), depth)
         IN  [i \in 1..Len(t) |-> <<0 - t[i][1], t[i][2]>>]
    ELSE IF side = "asks" THEN Take(Items(self.asks), depth)
    ELSE <<>>

\* Faulty variant of calculate_imbalance: 0 as soon as one side has no volume.
calculate_imbalance_needs_both(bids, asks, depth) ==
    LET bid_vol == SumQty(Take(bids, depth))
        ask_vol == SumQty(Take(asks, depth))
    IN  IF bid_vol = 0 \/ ask_vol = 0 THEN Rat(0, 1)
        ELSE Rat(bid_vol - ask_vol, bid_vol + ask_vol)

\* metrics.calculate_imbalance; the quotient is kept as a fraction.
calculate_imbalance(bids, asks, depth) ==
    LET bid_vol == SumQty(Take(bids, depth))
        ask_vol == SumQty(Take(asks, depth))
        total_vol == bid_vol + ask_vol
    IN  IF total_vol = 0 THEN Rat(0, 1) ELSE Rat(bid_vol - ask_vol, total_vol)

\* metrics.calculate_spread
calculate_spread(best_bid, best_ask) ==
    IF best_bid = None \/ best_ask = None THEN 0 ELSE best_ask - best_bid

\* metrics.calculate_midprice
calculate_midprice(best_bid, best_ask) ==
    IF best_bid = None \/ best_ask = None THEN Rat(0, 1) ELSE Rat(best_bid + best_ask, 2)

\* metrics.calculate_microprice
calculate_microprice(best_bid, best_ask, best_bid_qty, best_ask_qty) ==
    LET total_qty == best_bid_qty + best_ask_qty
    IN  IF best_bid = None \/ best_ask = None THEN Rat(0, 1)
        ELSE IF total_qty = 0 THEN Rat(best_bid + best_ask, 2)
        ELSE Rat(best_bid * best_ask_qty + best_ask * best_bid_qty, total_qty)

\* OrderBook.ladder_payload
ladder_payload(self, depth) ==
    LET best_bid == get_best_bid(self)
        best_ask == get_best_ask(self)
        best_bid_qty == IF DOMAIN self.bids # {} THEN peekitem0(self.bids)[2] ELSE 0
        best_ask_qty == IF DOMAIN self.asks # {} THEN peekitem0(self.asks)[2] ELSE 0
        bids_data == top_levels(self, "bids", depth)
        asks_data == top_levels(self, "asks", depth)
    IN  [type |-> "ladder",
         bids |-> bids_data,
         asks |-> asks_data,
         metrics |-> [imb |-> calculate_imbalance(bids_data, asks_data, depth),
                      spread |-> calculate_spread(best_bid, best_ask),
                      mid |-> calculate_midprice(best_bid, best_ask),
                      micro |-> calculate_microprice(best_bid, best_ask, best_bid_qty, best_ask_qty),
                      ofi |-> IF self.ofi_window # <<>> THEN Sum(self.ofi_window) ELSE 0,
                      cvd |-> self.cvd]]

\* ------------------------------------------------------------------- state
\* order_book   : the OrderBook instance (main.py:16).
\* last_call    : what the last call on the replica was and how it ended.
\* pc           : where binance_listener is suspended.
\* sess_applied : a diff has been applied since the listener's last snapshot load.
\* gap_pending  : the listener was handed a gap event since the last snapshot
\*                that did load.
\* stream       : the ids of the last depth event the socket delivered on this
\*                connection, and the parity of the number delivered.
\* exch         : the exchange's own book, its update id and the updates not yet
\*                published in a depth event.
\* log          : the depth events published since order_book loaded its snapshot.
\* replay       : a second OrderBook, loaded from a later snapshot and fed log.
\* snap_id      : the lastUpdateId of the snapshots order_book and replay loaded.
\* engine       : the PaperTradingEngine instance.
\* heap         : the Order objects alive, by id.
\* placing      : the ids of the place_order coroutines suspended in their sleep.
\* next_order   : the number of ids uuid4 has given out.
\* trail        : what the callers of the engine have done lately: the LIMIT
\*                ids given out when cancel_all_orders was last called with
\*                no trade, cancel or reset since, the balance they
\*                constructed the engine with, and the ids of the place_order
\*                calls they cancelled.
\* broadcaster  : where start_broadcasting is suspended, whether a client is
\*                connected, and the payload it built last.
\* twap         : the TWAP instance, the on_tick invocations suspended in
\*                place_order and the orders the instance has placed.
VARIABLES order_book, last_call, pc, sess_applied, gap_pending, stream,
          exch, log, replay, snap_id, engine, heap, placing, next_order, trail,
          broadcaster, twap

bookVars == <<order_book, last_call>>
feedVars == <<pc, sess_applied, gap_pending, stream>>
equivVars == <<exch, log, replay, snap_id>>
taskVars == <<broadcaster, twap>>
matcherVars == <<engine, heap, placing, next_order, trail, taskVars>>
vars == <<order_book, last_call, pc, sess_applied, gap_pending, stream,
          exch, log, replay, snap_id, engine, heap, placing, next_order, trail,
          broadcaster, twap>>

\* op is the method called, stale tells an apply_diff of an event with
\* u <= last_update_id, exc is the exception raised ("" for none).
Call(op, stale, exc) == [op |-> op, stale |-> stale, exc |-> exc]

IsStale(self, event) == self.last_update_id # None /\ event.u <= self.last_update_id

IsGap(self, event) ==
    /\ self.last_update_id # None
    /\ event.u > self.last_update_id
    /\ event.U > self.last_update_id + 1

StreamStart == [U |-> None, u |-> None, odd |-> FALSE]

\* No cancel_all_orders to count from.
TrailStart == [armed |-> FALSE, base |-> 0, capital |-> InitialBalanceUsd, dropped |-> {}]

\* The second replica: not loaded, no snapshot fetched.
ReplayStart ==
    [book |-> NewOrderBook, exc |-> "", applied |-> FALSE,
     fetched |-> [ok |-> FALSE, data |-> <<>>], loaded |-> FALSE]

\* Broadcaster() and the task lifespan creates: about to sleep 100 ms, no
\* client connected, no payload built.
BroadcasterStart == [pc |-> "sleeping", clients |-> FALSE, payload |-> <<>>]

\* No TWAP instance yet.  time is what time.time() returns, suspended are the
\* on_tick invocations waiting in place_order: the id of the order each has
\* placed and the now it read.
TwapStart ==
    [made |-> FALSE, side |-> "BUY", total_quantity |-> 0, num_slices |-> 0,
     slice_size |-> 0, interval |-> 0, slices_executed |-> 0,
     next_execution_time |-> 0, filled_quantity |-> 0, is_active |-> FALSE,
     time |-> 0, suspended |-> {}]

Init ==
    /\ order_book = NewOrderBook
    /\ last_call = Call("init", FALSE, "")
    /\ pc = "connecting"
    /\ sess_applied = FALSE
    /\ gap_pending = FALSE
    /\ stream = StreamStart
    /\ exch = ExchangeStart
    /\ log = <<>>
    /\ replay = ReplayStart
    /\ snap_id = [a |-> None, b |-> None]
    /\ engine = NewPaperTradingEngine
    /\ heap = EmptyDict
    /\ placing = {}
    /\ next_order = 0
    /\ trail = TrailStart
    /\ broadcaster = BroadcasterStart
    /\ twap = TwapStart

\* ---------------------------------------------- the replica's methods, called
\* order_book.load_snapshot(...)
LoadSnapshotCall(response) ==
    /\ order_book' = load_snapshot(order_book, response)
    /\ last_call' = Call("load_snapshot", FALSE, "")

\* order_book.apply_diff(event, strict)
ApplyDiffCall(event, strict) ==
    LET r == apply_diff(order_book, event, strict)
    IN  /\ Len(r.self.ofi_window) <= MaxOfiLen
        /\ order_book' = r.self
        /\ last_call' = Call("apply_diff", IsStale(order_book, event), r.exc)

\* order_book.process_trade(trade)
ProcessTradeCall(trade) ==
    LET ob == process_trade(order_book, trade)
    IN  /\ ob.cvd >= 0 - MaxCvd
        /\ ob.cvd <= MaxCvd
        /\ order_book' = ob
        /\ last_call' = Call("process_trade", FALSE, "")

Next ==
    \/ \E response \in Responses : LoadSnapshotCall(response) /\ UNCHANGED <<feedVars, equivVars, matcherVars>>
    \/ \E event \in Events, strict \in BOOLEAN : ApplyDiffCall(event, strict) /\ UNCHANGED <<feedVars, equivVars, matcherVars>>
    \/ \E trade \in Trades : ProcessTradeCall(trade) /\ UNCHANGED <<feedVars, equivVars, matcherVars>>

\* Any sequence of load_snapshot, apply_diff and process_trade calls.
Spec == Init /\ [][Next]_vars

\* ------------------------------------------------- binance_listener (main.py)
\* The depth branch of the message loop: apply_diff(data, strict=False) and
\* the except clause.  brk tells that the loop is left by break.
HandleDepth(self, data) ==
    LET r == apply_diff(self, data, FALSE)
    IN  [self |-> r.self, exc |-> r.exc,
         brk |-> IF r.exc = "" THEN FALSE
                 ELSE IF r.exc = "ID GAP" THEN TRUE
                 ELSE IF r.exc = "Bridging failed" THEN FALSE
                 ELSE TRUE]

\* websockets.connect(...) succeeds; load_snapshot runs before the first
\* message is awaited.
Connected(response) ==
    /\ pc = "connecting"
    /\ order_book' = load_snapshot(order_book, response)
    /\ last_call' = Call("load_snapshot", FALSE, "")
    /\ pc' = "streaming"
    /\ sess_applied' = FALSE
    /\ gap_pending' = IF response.ok THEN FALSE ELSE gap_pending

\* Faulty variant of ConnectFailed: no except clause, the exception ends the
\* task.
ConnectFailedEscapes ==
    /\ pc = "connecting"
    /\ pc' = "ended"
    /\ UNCHANGED <<order_book, last_call, sess_applied, gap_pending>>

\* websockets.connect(...) raises: the outer except sleeps one second.
ConnectFailed ==
    /\ pc = "connecting"
    /\ pc' = "backoff"
    /\ UNCHANGED <<order_book, last_call, sess_applied, gap_pending>>

\* await asyncio.sleep(1) is over: next turn of while True.
BackoffDone ==
    /\ pc = "backoff"
    /\ pc' = "connecting"
    /\ UNCHANGED <<order_book, last_call, sess_applied, gap_pending>>

\* A depth message arrives.
RecvDepth(data) ==
    /\ pc = "streaming"
    /\ LET h == HandleDepth(order_book, data)
       IN  /\ Len(h.self.ofi_window) <= MaxOfiLen
           /\ order_book' = h.self
           /\ last_call' = Call("apply_diff", IsStale(order_book, data), h.exc)
           /\ pc' = IF h.brk THEN "connecting" ELSE "streaming"
           /\ sess_applied' = (sess_applied \/ (h.exc = "" /\ ~IsStale(order_book, data)))
           /\ gap_pending' = (gap_pending \/ IsGap(order_book, data))

\* A trade message arrives.
RecvTrade(data) ==
    /\ pc = "streaming"
    /\ LET ob == process_trade(order_book, data)
       IN  /\ ob.cvd >= 0 - MaxCvd
           /\ ob.cvd <= MaxCvd
           /\ order_book' = ob
    /\ last_call' = Call("process_trade", FALSE, "")
    /\ UNCHANGED <<pc, sess_applied, gap_pending>>

\* The server closes the stream: async for ends and while True goes round.
StreamEnded ==
    /\ pc = "streaming"
    /\ pc' = "connecting"
    /\ UNCHANGED <<order_book, last_call, sess_applied, gap_pending>>

\* The socket fails, or a message is no JSON: the outer except sleeps.
StreamError ==
    /\ pc = "streaming"
    /\ pc' = "backoff"
    /\ UNCHANGED <<order_book, last_call, sess_applied, gap_pending>>

NextFeed ==
    \/ \E response \in Responses : Connected(response) /\ UNCHANGED <<stream, equivVars, matcherVars>>
    \/ ConnectFailed /\ UNCHANGED <<stream, equivVars, matcherVars>>
    \/ BackoffDone /\ UNCHANGED <<stream, equivVars, matcherVars>>
    \/ \E data \in Events : RecvDepth(data) /\ UNCHANGED <<stream, equivVars, matcherVars>>
    \/ \E data \in Trades : RecvTrade(data) /\ UNCHANGED <<stream, equivVars, matcherVars>>
    \/ StreamEnded /\ UNCHANGED <<stream, equivVars, matcherVars>>
    \/ StreamError /\ UNCHANGED <<stream, equivVars, matcherVars>>

\* The listener under any feed: events in any order, with any ids.
SpecFeed == Init /\ [][NextFeed]_vars

\* ------------------------------------- the listener on a quiet, ordered feed
\* An exchange whose book is not changing: every snapshot is the same book,
\* whatever its id, and the depth events carry no deltas.
QuietBook == [bids |-> <<<<1, 1>>>>, asks |-> <<<<MaxPrice, 1>>>>]

QuietResponses ==
    {r \in Responses : r.ok => (r.data.bids = QuietBook.bids /\ r.data.asks = QuietBook.asks)}

QuietEvents == {e \in Events : e.b = <<>> /\ e.a = <<>>}

\* The socket delivers a connection's events in order: ids never go back.
\* An event with the ids of the one before it stands for a later event that
\* compares in the same way to last_update_id.
QuietConnected ==
    /\ \E response \in QuietResponses : Connected(response)
    /\ stream' = StreamStart
    /\ UNCHANGED <<equivVars, matcherVars>>

QuietLoaded ==
    /\ \E response \in QuietResponses : response.ok /\ Connected(response)
    /\ stream' = StreamStart
    /\ UNCHANGED <<equivVars, matcherVars>>

QuietDepth ==
    \E data \in QuietEvents :
        /\ data.U >= stream.U
        /\ data.u >= stream.u
        /\ RecvDepth(data)
        /\ stream' = [U |-> data.U, u |-> data.u, odd |-> ~stream.odd]
        /\ UNCHANGED <<equivVars, matcherVars>>

NextFeedQuiet ==
    \/ QuietConnected
    \/ ConnectFailed /\ UNCHANGED <<stream, equivVars, matcherVars>>
    \/ BackoffDone /\ UNCHANGED <<stream, equivVars, matcherVars>>
    \/ QuietDepth
    \/ StreamEnded /\ UNCHANGED <<stream, equivVars, matcherVars>>
    \/ StreamError /\ UNCHANGED <<stream, equivVars, matcherVars>>

\* The listener's own steps are fair: it handles the messages the socket
\* delivers and its sleep ends.  The network is as kind as it can be: a
\* listener that keeps trying to connect does connect and gets its snapshot.
\* The socket owes nothing more: it need never close or fail.
SpecFeedFair ==
    /\ Init
    /\ [][NextFeedQuiet]_vars
    /\ WF_vars(QuietDepth)
    /\ WF_vars(BackoffDone /\ UNCHANGED <<stream, equivVars, matcherVars>>)
    /\ SF_vars(QuietLoaded)

\* What is left alone by a step of the listener.
ListenerOnly == UNCHANGED <<stream, equivVars, matcherVars>>

\* ----------------------------------------- the listener on a damaged feed
\* Lists of [price, qty] pairs with one pair whose price or quantity is no
\* number, alone or after a pair that is in order.
DamagedPairs ==
    {good \o <<bad>> : good \in {<<>>, <<<<MaxPrice, 1>>>>},
                       bad \in {<<Malformed, 1>>, <<1, Malformed>>}}

\* Depth events of one update with a damaged list of bid deltas or of ask
\* deltas.
DamagedEvents ==
    {[U |-> x, u |-> x, b |-> bs, a |-> as] :
        x \in Ids,
        bs \in {<<>>} \cup DamagedPairs,
        as \in {<<>>} \cup DamagedPairs}

\* Snapshot responses with a damaged list of bids or of asks.
DamagedResponses ==
    {[ok |-> TRUE, data |-> [lastUpdateId |-> i, bids |-> bl, asks |-> al]] :
        i \in Ids,
        bl \in {QuietBook.bids} \cup DamagedPairs,
        al \in {QuietBook.asks} \cup DamagedPairs}

\* The listener fed what the exchange would never send, next to what it
\* does send.
NextDamagedFeed ==
    \/ \E response \in QuietResponses \cup DamagedResponses : Connected(response) /\ ListenerOnly
    \/ \E data \in QuietEvents \cup DamagedEvents : RecvDepth(data) /\ ListenerOnly
    \/ StreamEnded /\ ListenerOnly

SpecDamagedFeed == Init /\ [][NextDamagedFeed]_vars

\* ------------------------- the listener and the broadcaster (main.py:65-91)
\* websocket_endpoint: a client joins (Broadcaster.connect) or leaves
\* (Broadcaster.disconnect).
ClientChange(connected) ==
    /\ broadcaster.clients # connected
    /\ broadcaster' = [broadcaster EXCEPT !.clients = connected]

\* Faulty variant of BroadcastIteration: the build is suspended half way, so
\* the asks are those of an earlier build.
BroadcastIterationTorn ==
    /\ broadcaster.pc = "sleeping"
    /\ broadcaster.clients
    /\ LET payload == ladder_payload(order_book, 10)
           earlier == broadcaster.payload
       IN  broadcaster' =
               [broadcaster EXCEPT !.pc = "sending",
                                   !.payload = IF earlier = <<>> THEN payload
                                               ELSE [payload EXCEPT !.asks = earlier.asks]]

\* start_broadcasting after its 100 ms sleep, up to await self.broadcast: the
\* payload is built.  With no client the iteration is a continue, which
\* changes nothing.
BroadcastIteration ==
    /\ broadcaster.pc = "sleeping"
    /\ broadcaster.clients
    /\ broadcaster' = [broadcaster EXCEPT !.pc = "sending",
                                          !.payload = ladder_payload(order_book, 10)]

\* self.broadcast returns: a send that fails is passed over, and the loop
\* sleeps again.
BroadcastSent ==
    /\ broadcaster.pc = "sending"
    /\ broadcaster' = [broadcaster EXCEPT !.pc = "sleeping"]

\* An exception anywhere in the try block: except Exception prints it and
\* sleeps one second.
BroadcastRaised ==
    /\ broadcaster.pc \in {"sleeping", "sending"}
    /\ broadcaster' = [broadcaster EXCEPT !.pc = "recovering"]

\* await asyncio.sleep(1) is over: next turn of while True.
BroadcastRecovered ==
    /\ broadcaster.pc = "recovering"
    /\ broadcaster' = [broadcaster EXCEPT !.pc = "sleeping"]

\* What is left alone by a step of the broadcaster.
BroadcasterOnly == UNCHANGED <<bookVars, feedVars, equivVars, engine, heap, placing, next_order, trail, twap>>

NextTasks ==
    \/ \E response \in QuietResponses : Connected(response) /\ ListenerOnly
    \/ ConnectFailed /\ ListenerOnly
    \/ BackoffDone /\ ListenerOnly
    \/ \E data \in QuietEvents : RecvDepth(data) /\ ListenerOnly
    \/ \E data \in Trades : RecvTrade(data) /\ ListenerOnly
    \/ StreamEnded /\ ListenerOnly
    \/ StreamError /\ ListenerOnly
    \/ \E connected \in BOOLEAN : ClientChange(connected) /\ BroadcasterOnly
    \/ BroadcastIteration /\ BroadcasterOnly
    \/ BroadcastSent /\ BroadcasterOnly
    \/ BroadcastRaised /\ BroadcasterOnly
    \/ BroadcastRecovered /\ BroadcasterOnly

\* The two tasks of lifespan on one event loop.  A sleep that was started
\* ends: that is all the loop owes the tasks.  The network owes nothing.
SpecTasks ==
    /\ Init
    /\ [][NextTasks]_vars
    /\ WF_vars(BackoffDone /\ ListenerOnly)
    /\ WF_vars(BroadcastRecovered /\ BroadcasterOnly)

\* ------------------------------------- two replicas of one exchange's book
\* A replica handed one depth event, as the listeners do it: apply_diff, the
\* first exception kept.
Feed(rep, event, strict) ==
    LET r == apply_diff(rep.book, event, strict)
    IN  [rep EXCEPT !.book = r.self,
                    !.exc = IF @ # "" THEN @ ELSE r.exc,
                    !.applied = @ \/ (r.exc = "" /\ ~IsStale(rep.book, event))]

\* The events of the log fed in order: bridging until one is applied, strict
\* from then on.
RECURSIVE Replay(_, _)
Replay(rep, events) ==
    IF events = <<>> THEN rep
    ELSE Replay(Feed(rep, events[1], rep.applied), Tail(events))

\* The exchange's matching engine changes one level; the book stays uncrossed.
ExchangeUpdate(side, price, qty) ==
    LET bids2 == IF side = "b" THEN SetLevel(exch.bids, price, qty) ELSE exch.bids
        asks2 == IF side = "a" THEN SetLevel(exch.asks, price, qty) ELSE exch.asks
    IN  /\ exch.id < MaxUpdates
        /\ Uncrossed(bids2, asks2)
        /\ exch' = [exch EXCEPT !.bids = bids2,
                                !.asks = asks2,
                                !.id = @ + 1,
                                !.touched_b = IF side = "b" THEN @ \cup {price} ELSE @,
                                !.touched_a = IF side = "a" THEN @ \cup {price} ELSE @]
        /\ UNCHANGED <<bookVars, feedVars, log, replay, snap_id, matcherVars>>

\* The depth stream publishes the updates since its last event.  A replica
\* that has loaded its snapshot applies the event.
ExchangePublish ==
    LET event == PendingEvent(exch)
    IN  /\ exch.first <= exch.id
        /\ exch' = [exch EXCEPT !.first = exch.id + 1, !.touched_b = {}, !.touched_a = {}]
        /\ IF snap_id.a = None
           THEN UNCHANGED <<order_book, last_call, sess_applied, log, replay>>
           ELSE \E strict_a \in (IF sess_applied THEN BOOLEAN ELSE {FALSE}),
                   strict_b \in (IF replay.applied THEN BOOLEAN ELSE {FALSE}) :
                    LET r == apply_diff(order_book, event, strict_a)
                    IN  /\ order_book' = r.self
                        /\ last_call' = Call("apply_diff", IsStale(order_book, event), r.exc)
                        /\ sess_applied' = (sess_applied \/ (r.exc = "" /\ ~IsStale(order_book, event)))
                        /\ log' = Append(log, event)
                        /\ replay' = IF replay.loaded THEN Feed(replay, event, strict_b) ELSE replay
        /\ UNCHANGED <<pc, gap_pending, stream, snap_id, matcherVars>>

\* order_book loads the snapshot S0.
LoadFirst ==
    /\ snap_id.a = None
    /\ order_book' = load_snapshot(order_book, SnapshotOf(exch))
    /\ last_call' = Call("load_snapshot", FALSE, "")
    /\ sess_applied' = FALSE
    /\ snap_id' = [snap_id EXCEPT !.a = exch.id]
    /\ UNCHANGED <<pc, gap_pending, stream, exch, log, replay, matcherVars>>

\* The exchange answers the second replica's snapshot request.
FetchIntermediate ==
    /\ snap_id.a # None
    /\ snap_id.b = None
    /\ replay' = [replay EXCEPT !.fetched = SnapshotOf(exch)]
    /\ snap_id' = [snap_id EXCEPT !.b = exch.id]
    /\ UNCHANGED <<bookVars, feedVars, exch, log, matcherVars>>

\* The second replica loads the answer, then is fed the log from its start.
LoadIntermediate ==
    /\ snap_id.b # None
    /\ ~replay.loaded
    /\ replay' = Replay([replay EXCEPT !.book = load_snapshot(@, replay.fetched),
                                       !.loaded = TRUE],
                        log)
    /\ UNCHANGED <<bookVars, feedVars, exch, log, snap_id, matcherVars>>

NextEquiv ==
    \/ \E side \in {"b", "a"}, price \in Prices, qty \in 0..MaxQty : ExchangeUpdate(side, price, qty)
    \/ ExchangePublish
    \/ LoadFirst
    \/ FetchIntermediate
    \/ LoadIntermediate

\* One exchange, the replica of main.py and a replica started later.
SpecEquiv == Init /\ [][NextEquiv]_vars

\* ------------------------------------------- the paper matcher and its callers
\* The books a market order is walked against.
MarketBooks ==
    {load_snapshot(NewOrderBook, response) :
        response \in {r \in Responses : r.ok /\ r.data.lastUpdateId = 0}}

TradeStreams == SeqsUpTo(Trades, MaxStream)

\* The ids uuid4 has given out.
OrderIds == 1..next_order

\* The engine and the objects after a method; inflight are the coroutines
\* still suspended.  Objects nothing refers to any more are dropped.
MatcherResult(m, exc, inflight) ==
    /\ engine' = m.engine
    /\ heap' = Collect(m.heap, m.engine.orders \cup inflight)
    /\ placing' = inflight
    /\ last_call' = Call("paper_trading", FALSE, exc)
    /\ UNCHANGED <<order_book, feedVars, equivVars>>

\* place_order runs up to await asyncio.sleep(delay).
PlaceOrderSubmit(side, order_type, quantity, price) ==
    /\ next_order < MaxOrders
    /\ next_order' = next_order + 1
    /\ MatcherResult(place_order_submit(Machine(engine, heap), next_order + 1,
                                        side, order_type, quantity, price),
                     "", placing \cup {next_order + 1})

\* The sleep of a place_order is over.
PlaceOrderAck(order_id) ==
    /\ order_id \in placing
    /\ MatcherResult(place_order_ack(Machine(engine, heap), order_id),
                     "", placing \ {order_id})
    /\ UNCHANGED next_order

ProcessMarketOrder(order_id, book) ==
    /\ MatcherResult(process_market_order(Machine(engine, heap), order_id, book),
                     "", placing)
    /\ UNCHANGED next_order

ProcessLimitOrders(trade_stream) ==
    LET r == process_limit_orders(Machine(engine, heap), trade_stream)
    IN  /\ MatcherResult(r.m, r.exc, placing)
        /\ UNCHANGED next_order

CancelOrder(order_id) ==
    LET r == cancel_order(Machine(engine, heap), order_id)
    IN  /\ MatcherResult(r.m, r.exc, placing)
        /\ UNCHANGED next_order

CancelAllOrders ==
    LET r == cancel_all_orders(Machine(engine, heap))
    IN  /\ MatcherResult(r.m, r.exc, placing)
        /\ UNCHANGED next_order

Reset ==
    /\ MatcherResult(reset(Machine(engine, heap)), "", placing)
    /\ UNCHANGED next_order

SetFees(enabled) ==
    /\ MatcherResult(set_fees(Machine(engine, heap), enabled), "", placing)
    /\ UNCHANGED next_order

NextMatcher ==
    \/ \E side \in {"BUY", "SELL"}, quantity \in 1..MaxQty, price \in Prices :
           PlaceOrderSubmit(side, "LIMIT", quantity, price) /\ UNCHANGED <<trail, taskVars>>
    \/ \E side \in {"BUY", "SELL"}, quantity \in 1..MaxQty :
           PlaceOrderSubmit(side, "MARKET", quantity, 0) /\ UNCHANGED <<trail, taskVars>>
    \/ \E order_id \in OrderIds : PlaceOrderAck(order_id) /\ UNCHANGED <<trail, taskVars>>
    \/ \E order_id \in OrderIds, book \in MarketBooks :
           ProcessMarketOrder(order_id, book) /\ UNCHANGED <<trail, taskVars>>
    \/ \E trade_stream \in TradeStreams : ProcessLimitOrders(trade_stream) /\ UNCHANGED <<trail, taskVars>>
    \/ \E order_id \in OrderIds : CancelOrder(order_id) /\ UNCHANGED <<trail, taskVars>>
    \/ CancelAllOrders /\ UNCHANGED <<trail, taskVars>>
    \/ Reset /\ UNCHANGED <<trail, taskVars>>
    \/ \E enabled \in BOOLEAN : SetFees(enabled) /\ UNCHANGED <<trail, taskVars>>

\* Any interleaving of the engine's methods, the suspension of place_order
\* included.
SpecMatcher == Init /\ [][NextMatcher]_vars

\* ------------------------------------------------- a long session of diffs
\* The replica through a session longer than the OFI window: a snapshot with
\* both sides, then depth events in sequence (U = u = last_update_id + 1).
\* Every event changes the quantity of the best bid, round the quantities in
\* turn; it may also raise the quantity of the best ask by one.
LongSessionEvents(self) ==
    LET next == self.last_update_id + 1
        bid == peekitem0(self.bids)
        ask == peekitem0(self.asks)
        bid_delta == <<0 - bid[1], (bid[2] % MaxQty) + 1>>
    IN  {[U |-> next, u |-> next, b |-> <<bid_delta>>, a |-> <<>>]}
            \cup (IF ask[2] < MaxQty
                  THEN {[U |-> next, u |-> next, b |-> <<bid_delta>>,
                         a |-> <<<<ask[1], ask[2] + 1>>>>]}
                  ELSE {})

LongSessionLoad(response) ==
    /\ order_book.last_update_id = None
    /\ response.data.lastUpdateId = 0
    /\ response.data.bids # <<>> /\ response.data.asks # <<>>
    /\ LoadSnapshotCall(response)
    /\ UNCHANGED <<feedVars, equivVars, matcherVars>>

LongSessionDiff(event) ==
    LET r == apply_diff(order_book, event, TRUE)
    IN  /\ order_book.last_update_id < MaxWindowUpdates
        /\ order_book' = r.self
        /\ last_call' = Call("apply_diff", IsStale(order_book, event), r.exc)
        /\ UNCHANGED <<feedVars, equivVars, matcherVars>>

NextLongSession ==
    \/ \E response \in {r \in Responses : r.ok} : LongSessionLoad(response)
    \/ /\ order_book.last_update_id # None
       /\ \E event \in LongSessionEvents(order_book) : LongSessionDiff(event)

SpecLongSession == Init /\ [][NextLongSession]_vars

\* --------------------------------------------- place_order tasks cancelled
\* The task of a place_order is cancelled in its latency sleep.
PlaceOrderCancelled(order_id) ==
    /\ order_id \in placing
    /\ MatcherResult(place_order_cancelled(Machine(engine, heap), order_id),
                     "", placing \ {order_id})
    /\ UNCHANGED next_order

NextCancellable ==
    \/ \E side \in {"BUY", "SELL"}, quantity \in 1..MaxQty, price \in Prices :
           PlaceOrderSubmit(side, "LIMIT", quantity, price) /\ UNCHANGED <<trail, taskVars>>
    \/ \E side \in {"BUY", "SELL"}, quantity \in 1..MaxQty :
           PlaceOrderSubmit(side, "MARKET", quantity, 0) /\ UNCHANGED <<trail, taskVars>>
    \/ \E order_id \in OrderIds : PlaceOrderAck(order_id) /\ UNCHANGED <<trail, taskVars>>
    \/ \E order_id \in OrderIds :
           PlaceOrderCancelled(order_id) /\ trail' = [trail EXCEPT !.dropped = @ \cup {order_id}] /\ UNCHANGED taskVars
    \/ \E order_id \in OrderIds, book \in MarketBooks :
           ProcessMarketOrder(order_id, book) /\ UNCHANGED <<trail, taskVars>>
    \/ \E trade_stream \in TradeStreams : ProcessLimitOrders(trade_stream) /\ UNCHANGED <<trail, taskVars>>
    \/ \E order_id \in OrderIds : CancelOrder(order_id) /\ UNCHANGED <<trail, taskVars>>
    \/ CancelAllOrders /\ UNCHANGED <<trail, taskVars>>

\* The engine's methods with place_order tasks that may be cancelled.
SpecCancellable == Init /\ [][NextCancellable]_vars

\* ------------------------------------------------ submissions of any input
\* What a caller may hand to place_order: the annotations are not enforced, so
\* a side or a type outside the enums and a quantity that is not positive
\* arrive as they are.
AnySides == {"BUY", "SELL", "HOLD"}
AnyTypes == {"MARKET", "LIMIT", "STOP"}
AnyQuantities == (0 - 1)..MaxQty

ValidInput(side, order_type, quantity) ==
    /\ side \in {"BUY", "SELL"}
    /\ order_type \in {"MARKET", "LIMIT"}
    /\ quantity > 0

\* place_order with whatever input, up to its await.
PlaceAnyOrder(side, order_type, quantity, price) ==
    /\ next_order < MaxOrders
    /\ next_order' = next_order + 1
    /\ MatcherResult(place_order_submit(Machine(engine, heap), next_order + 1,
                                        side, order_type, quantity, price),
                     "", placing \cup {next_order + 1})

NextIntake ==
    \/ \E side \in AnySides, order_type \in AnyTypes, quantity \in AnyQuantities, price \in Prices :
           PlaceAnyOrder(side, order_type, quantity, price) /\ UNCHANGED <<trail, taskVars>>
    \/ \E order_id \in OrderIds : PlaceOrderAck(order_id) /\ UNCHANGED <<trail, taskVars>>
    \/ \E order_id \in OrderIds, book \in MarketBooks :
           ProcessMarketOrder(order_id, book) /\ UNCHANGED <<trail, taskVars>>
    \/ \E order_id \in OrderIds : CancelOrder(order_id) /\ UNCHANGED <<trail, taskVars>>

\* Submissions of any input, their acks, market execution and cancels.
SpecIntake == Init /\ [][NextIntake]_vars

\* ------------------------------------------- TWAP (execution_algos.py:19-57)
\* TWAP(engine, symbol, quantity, side, duration_seconds, num_slices)
TwapInit(quantity, side, duration_seconds, num_slices) ==
    /\ ~twap.made
    /\ twap' = [made |-> TRUE, side |-> side, total_quantity |-> quantity,
                num_slices |-> num_slices,
                slice_size |-> quantity \div num_slices,
                interval |-> duration_seconds \div num_slices,
                slices_executed |-> 0,
                next_execution_time |-> twap.time,
                filled_quantity |-> 0, is_active |-> TRUE,
                time |-> twap.time, suspended |-> {}]
    /\ UNCHANGED <<bookVars, feedVars, equivVars, engine, heap, placing, next_order, trail, broadcaster>>

\* The clock the algorithm reads goes on.
ClockTick ==
    /\ twap.made
    /\ twap.time < MaxTime
    /\ twap' = [twap EXCEPT !.time = @ + 1]
    /\ UNCHANGED <<bookVars, feedVars, equivVars, engine, heap, placing, next_order, trail, broadcaster>>

\* TWAP.on_tick up to the await inside place_order: a slice that is due is
\* placed as a MARKET order; slices_executed is not yet counted.  An
\* invocation that finds the algorithm inactive or no slice due returns.
OnTick ==
    /\ twap.made
    /\ IF /\ twap.is_active
          /\ twap.time >= twap.next_execution_time
          /\ twap.slices_executed < twap.num_slices
       THEN /\ next_order < MaxTwapOrders
            /\ next_order' = next_order + 1
            /\ MatcherResult(place_order_submit(Machine(engine, heap), next_order + 1,
                                                twap.side, "MARKET", twap.slice_size, 0),
                             "", placing \cup {next_order + 1})
            /\ twap' = [twap EXCEPT !.suspended =
                            @ \cup {[order_id |-> next_order + 1, now |-> twap.time]}]
       ELSE UNCHANGED <<bookVars, feedVars, equivVars, engine, heap, placing, next_order, twap>>
    /\ UNCHANGED <<trail, broadcaster>>

\* The place_order of an invocation returns: the rest of on_tick.
OnTickResumed(invocation) ==
    /\ invocation \in twap.suspended
    /\ invocation.order_id \in placing
    /\ MatcherResult(place_order_ack(Machine(engine, heap), invocation.order_id),
                     "", placing \ {invocation.order_id})
    /\ twap' = [twap EXCEPT !.suspended = @ \ {invocation},
                            !.slices_executed = @ + 1,
                            !.filled_quantity = @ + twap.slice_size,
                            !.next_execution_time = invocation.now + twap.interval,
                            !.is_active = IF twap.slices_executed + 1 >= twap.num_slices
                                          THEN FALSE ELSE @]
    /\ UNCHANGED <<next_order, trail, broadcaster>>

\* One TWAP instance and its caller: on_tick is awaited by whoever holds the
\* instance, as a task of its own per tick or one tick after the other.  The
\* quantities and durations are multiples of num_slices, so that the two
\* divisions of __init__ are exact.
NextTwap ==
    \/ \E num_slices \in 1..MaxSlices, per_slice \in 1..MaxQty, side \in {"BUY", "SELL"}, seconds \in 1..MaxInterval :
           TwapInit(num_slices * per_slice, side, num_slices * seconds, num_slices)
    \/ ClockTick
    \/ OnTick
    \/ \E invocation \in twap.suspended : OnTickResumed(invocation)

SpecTwap == Init /\ [][NextTwap]_vars

\* ------------------------------------------------- the engine of a backtest
\* The balances a Backtester is constructed with.
InitialCapitals == {InitialBalanceUsd, InitialBalanceUsd \div 2}

\* Backtester(initial_capital): the engine starts with that balance.
InitBacktester ==
    /\ order_book = NewOrderBook
    /\ last_call = Call("init", FALSE, "")
    /\ pc = "connecting"
    /\ sess_applied = FALSE
    /\ gap_pending = FALSE
    /\ stream = StreamStart
    /\ exch = ExchangeStart
    /\ log = <<>>
    /\ replay = ReplayStart
    /\ snap_id = [a |-> None, b |-> None]
    /\ \E initial_capital \in InitialCapitals :
          /\ engine = PaperTradingEngine(initial_capital)
          /\ trail = [TrailStart EXCEPT !.capital = initial_capital]
    /\ heap = EmptyDict
    /\ placing = {}
    /\ next_order = 0
    /\ broadcaster = BroadcasterStart
    /\ twap = TwapStart

\* The strategy callback is handed the engine and calls its methods.
SpecBacktester == InitBacktester /\ [][NextMatcher]_vars

\* ------------------------------------------- the limit orders of a strategy
\* A caller that works with LIMIT orders only, as Backtester.run_strategy
\* does: it places them, feeds the trades of the market to
\* process_limit_orders, cancels and resets.
PlaceLimitOrder(side, quantity, price) ==
    /\ next_order < MaxLimitOrders
    /\ next_order' = next_order + 1
    /\ MatcherResult(place_order_submit(Machine(engine, heap), next_order + 1,
                                        side, "LIMIT", quantity, price),
                     "", placing \cup {next_order + 1})

NextLimit ==
    \/ \E side \in {"BUY", "SELL"}, quantity \in 1..MaxQty, price \in Prices :
           PlaceLimitOrder(side, quantity, price) /\ UNCHANGED <<trail, taskVars>>
    \/ \E order_id \in OrderIds : PlaceOrderAck(order_id) /\ UNCHANGED <<trail, taskVars>>
    \/ \E trade_stream \in TradeStreams :
           ProcessLimitOrders(trade_stream) /\ trail' = TrailStart /\ UNCHANGED taskVars
    \/ \E order_id \in OrderIds : CancelOrder(order_id) /\ trail' = TrailStart /\ UNCHANGED taskVars
    \/ CancelAllOrders /\ trail' = [trail EXCEPT !.armed = TRUE, !.base = next_order] /\ UNCHANGED taskVars
    \/ Reset /\ trail' = TrailStart /\ UNCHANGED taskVars

SpecLimit == Init /\ [][NextLimit]_vars

\* ------------------------------------------- market orders against one book
\* A caller that trades at the market: it loads the book and sets the fees
\* before its first order, then places MARKET orders and has each executed
\* against that book, which does not change any more.
BookLoaded(response) ==
    /\ next_order = 0
    /\ LoadSnapshotCall(response)
    /\ UNCHANGED <<feedVars, equivVars, matcherVars>>

FeesChosen(enabled) ==
    /\ next_order = 0
    /\ SetFees(enabled)

PlaceMarketOrder(side, quantity) ==
    /\ next_order < MaxMarketOrders
    /\ next_order' = next_order + 1
    /\ MatcherResult(place_order_submit(Machine(engine, heap), next_order + 1,
                                        side, "MARKET", quantity, 0),
                     "", placing \cup {next_order + 1})

NextRoundTrip ==
    \/ \E response \in {r \in Responses : r.ok /\ r.data.lastUpdateId = 0} :
           BookLoaded(response)
    \/ \E enabled \in BOOLEAN : FeesChosen(enabled) /\ UNCHANGED <<trail, taskVars>>
    \/ \E side \in {"BUY", "SELL"}, quantity \in 1..MaxQty :
           PlaceMarketOrder(side, quantity) /\ UNCHANGED <<trail, taskVars>>
    \/ \E order_id \in OrderIds : PlaceOrderAck(order_id) /\ UNCHANGED <<trail, taskVars>>
    \/ \E order_id \in OrderIds :
           ProcessMarketOrder(order_id, order_book) /\ UNCHANGED <<trail, taskVars>>

SpecRoundTrip == Init /\ [][NextRoundTrip]_vars

\* ------------------------- the tasks of one event loop and the order handlers
\* The depth events of a feed in sequence that change the best ask's
\* quantity.
SequenceEvents(self) ==
    {[U |-> self.last_update_id + 1, u |-> self.last_update_id + 1,
      b |-> <<>>, a |-> <<<<MaxPrice, qty>>>>] : qty \in 1..MaxQty}

\* What is left alone by a step of an order handler.
HandlerOnly == UNCHANGED <<trail, taskVars>>

\* The listener, the broadcaster and the handlers that place orders and walk
\* MARKET orders against the replica, one step of one task at a time: a step
\* is what a task does between two awaits.
NextScheduling ==
    \/ \E response \in {r \in QuietResponses : r.ok} : Connected(response) /\ ListenerOnly
    \/ \E data \in SequenceEvents(order_book) : RecvDepth(data) /\ ListenerOnly
    \/ \E data \in Trades : RecvTrade(data) /\ ListenerOnly
    \/ ClientChange(TRUE) /\ BroadcasterOnly
    \/ BroadcastIteration /\ BroadcasterOnly
    \/ BroadcastSent /\ BroadcasterOnly
    \/ \E side \in {"BUY", "SELL"}, quantity \in 1..MaxQty, price \in Prices :
           PlaceOrderSubmit(side, "LIMIT", quantity, price) /\ HandlerOnly
    \/ \E side \in {"BUY", "SELL"}, quantity \in 1..MaxQty :
           PlaceOrderSubmit(side, "MARKET", quantity, 0) /\ HandlerOnly
    \/ \E order_id \in OrderIds : PlaceOrderAck(order_id) /\ HandlerOnly
    \/ \E order_id \in OrderIds : ProcessMarketOrder(order_id, order_book) /\ HandlerOnly

SpecScheduling == Init /\ [][NextScheduling]_vars

\* ------------------------------------------------------------ claim helpers
HasLevels(self) == DOMAIN self.bids # {} /\ DOMAIN self.asks # {}

Loaded(self) == self.last_update_id # None

\* The prices a list of deltas names.
Named(deltas) == {deltas[i][1] : i \in 1..Len(deltas)}

\* The quantity the last delta naming price gives.
LastQty(deltas, price) ==
    LET i == CHOOSE n \in 1..Len(deltas) :
                 /\ deltas[n][1] = price
                 /\ \A m \in 1..Len(deltas) : deltas[m][1] = price => m <= n
    IN  deltas[i][2]

\* Side `after` is side `before` with the deltas in it: a named price is gone
\* when its quantity is 0 and holds that quantity otherwise; every other key
\* is as before.  sign is -1 for the bids (key = -price) and 1 for the asks.
SideReflects(before, after, deltas, sign) ==
    /\ \A p \in Named(deltas) :
          IF LastQty(deltas, p) = 0 THEN (sign * p) \notin DOMAIN after
          ELSE (sign * p) \in DOMAIN after /\ after[sign * p] = LastQty(deltas, p)
    /\ \A k \in (DOMAIN before \cup DOMAIN after) \ {sign * p : p \in Named(deltas)} :
          k \in DOMAIN before /\ k \in DOMAIN after /\ after[k] = before[k]

\* The event is applied: both sides hold its deltas and last_update_id is u.
Applied(before, after, event) ==
    /\ SideReflects(before.bids, after.bids, event.b, 0 - 1)
    /\ SideReflects(before.asks, after.asks, event.a, 1)
    /\ after.last_update_id = event.u

\* ------------------------------------------------------------------ claims

\* C1: whenever apply_diff returns normally and both sides are non-empty,
\* best_bid < best_ask (an apply_diff that leaves the book crossed does not
\* return normally).
C1_NoCrossedBookAfterDiff ==
    (last_call.op = "apply_diff" /\ last_call.exc = "" /\ HasLevels(order_book))
        => get_best_bid(order_book) < get_best_ask(order_book)

\* C3: in strict mode an event with u > last_update_id and U # last_update_id + 1
\* raises ID GAP and leaves the whole replica as it was; one with
\* U = last_update_id + 1 is applied.
C3_StrictGap ==
    \A event \in Events :
        (Loaded(order_book) /\ event.u > order_book.last_update_id) =>
            LET r == apply_diff(order_book, event, TRUE)
            IN  IF event.U # order_book.last_update_id + 1
                THEN r.exc = "ID GAP" /\ r.self = order_book
                ELSE r.exc = "" /\ Applied(order_book, r.self, event)

C3_Witness ==
    /\ last_call.op = "apply_diff"
    /\ last_call.exc = "ID GAP"
    /\ HasLevels(order_book)
    /\ order_book.ofi_window # <<>>

\* C5: apply_diff of a stale event (u <= last_update_id), in either mode and
\* whatever its U and deltas, returns without error and changes nothing.
C5_StaleDropped ==
    \A event \in Events, strict \in BOOLEAN :
        (Loaded(order_book) /\ event.u <= order_book.last_update_id) =>
            LET r == apply_diff(order_book, event, strict)
            IN  r.exc = "" /\ r.self = order_book

C5_Witness ==
    /\ last_call.op = "apply_diff"
    /\ last_call.stale
    /\ last_call.exc = ""
    /\ HasLevels(order_book)
    /\ order_book.ofi_window # <<>>
    /\ order_book.cvd # 0

\* A call that is not a snapshot load never lowers last_update_id, and only
\* an apply_diff that returns normally on an event that is not stale changes it.
C7_StepMonotone ==
    last_call'.op # "load_snapshot" =>
        /\ order_book'.last_update_id >= order_book.last_update_id
        /\ (order_book'.last_update_id # order_book.last_update_id) =>
               (last_call'.op = "apply_diff" /\ last_call'.exc = "" /\ ~last_call'.stale)

\* An applied diff sets last_update_id to the event's u; a dropped or failed
\* one leaves it.
C7_DiffSetsU ==
    \A event \in Events, strict \in BOOLEAN :
        Loaded(order_book) =>
            LET r == apply_diff(order_book, event, strict)
            IN  IF r.exc = "" /\ event.u > order_book.last_update_id
                THEN r.self.last_update_id = event.u
                ELSE r.self.last_update_id = order_book.last_update_id

\* C7: between snapshot loads last_update_id never decreases: an applied diff
\* sets it to the event's u, which is above the old value, and a dropped or
\* failed event does not change it.
C7_LastUpdateIdMonotone == [][C7_StepMonotone]_vars /\ []C7_DiffSetsU

C7_Witness ==
    /\ last_call.op = "apply_diff"
    /\ last_call.exc = ""
    /\ ~last_call.stale
    /\ order_book.last_update_id = MaxId

C2_GapLeadsToResync == gap_pending ~> ~gap_pending

\* C4: in bridging mode an event with u > last_update_id is applied iff
\* U <= last_update_id + 1 <= u; otherwise apply_diff raises Bridging failed,
\* the replica is as before and the listener's except clause passes, so its
\* loop goes on to the next message.
C4_Bridging ==
    \A event \in Events :
        (Loaded(order_book) /\ event.u > order_book.last_update_id) =>
            LET r == apply_diff(order_book, event, FALSE)
                h == HandleDepth(order_book, event)
            IN  IF event.U <= order_book.last_update_id + 1 /\ order_book.last_update_id + 1 <= event.u
                THEN r.exc = "" /\ Applied(order_book, r.self, event)
                ELSE /\ r.exc = "Bridging failed"
                     /\ r.self = order_book
                     /\ h.self = order_book
                     /\ ~h.brk

C4_Witness ==
    /\ last_call.op = "apply_diff"
    /\ last_call.exc = "Bridging failed"
    /\ pc = "streaming"
    /\ HasLevels(order_book)
    /\ order_book.ofi_window = <<>>

\* Once a diff has been applied in a session, a depth message with
\* U < last_update_id + 1 <= u leaves bids, asks and last_update_id alone.
C6_OverlapStep ==
    \A data \in Events :
        (/\ sess_applied
         /\ Loaded(order_book)
         /\ data.U < order_book.last_update_id + 1
         /\ order_book.last_update_id + 1 <= data.u
         /\ RecvDepth(data))
            => /\ order_book'.bids = order_book.bids
               /\ order_book'.asks = order_book.asks
               /\ order_book'.last_update_id = order_book.last_update_id

\* C6: within one session the listener bridges only until its first applied
\* diff and is strict afterwards, so an overlapping event that comes after the
\* first applied diff is never applied.
C6_StrictAfterFirstDiff == [][C6_OverlapStep]_vars

\* C9: a replica loaded from a snapshot taken at an update id inside the range
\* the logged events cover, and fed the log from its start, ends with the
\* bids, asks and last_update_id of the replica that loaded S0 and applied
\* every event, and neither replica raises.
C9_SnapshotEquivalence ==
    (replay.loaded /\ snap_id.b <= order_book.last_update_id) =>
        /\ replay.exc = ""
        /\ last_call.exc = ""
        /\ replay.book.bids = order_book.bids
        /\ replay.book.asks = order_book.asks
        /\ replay.book.last_update_id = order_book.last_update_id

C9_Witness ==
    /\ replay.loaded
    /\ replay.applied
    /\ snap_id.a < snap_id.b
    /\ snap_id.b < order_book.last_update_id
    /\ \E i \in 1..Len(log) :
          log[i].U <= snap_id.b /\ snap_id.b < log[i].u /\ log[i].b # <<>> /\ log[i].a # <<>>
    /\ HasLevels(order_book)
    /\ replay.book.bids = order_book.bids
    /\ replay.book.asks = order_book.asks

\* C10: an order id is in the open-order index iff the order is in the
\* catalog with status OPEN.
C10_OpenIndexIffOpen ==
    \A order_id \in OrderIds :
        InList(engine.open_orders, order_id) <=>
            (order_id \in engine.orders /\ heap[order_id].status = "OPEN")

\* The balances of the engine.
Balances(eng) == <<eng.balance_usd, eng.balance_btc>>

Terminal(status) == status = "FILLED" \/ status = "CANCELLED"

\* A step of the matcher leaves the status and the filled quantity of an order
\* that is FILLED or CANCELLED (and still in the catalog) as they are, and
\* process_market_order called on such an order moves no balance.
C11_TerminalStep ==
    /\ \A order_id \in OrderIds :
          (/\ order_id \in engine.orders
           /\ order_id \in engine'.orders
           /\ Terminal(heap[order_id].status))
              => /\ heap'[order_id].status = heap[order_id].status
                 /\ heap'[order_id].filled_quantity = heap[order_id].filled_quantity
    /\ \A order_id \in OrderIds, book \in MarketBooks :
          (order_id \in engine.orders /\ Terminal(heap[order_id].status))
              => Balances(process_market_order(Machine(engine, heap), order_id, book).engine)
                     = Balances(engine)

\* C11: FILLED and CANCELLED are terminal: no operation of the matcher changes
\* the status, the filled quantity or a balance on behalf of an order that is
\* FILLED or CANCELLED.
C11_TerminalStatuses == [][C11_TerminalStep]_vars

\* The total quantity of the levels of d with keys in S.
RECURSIVE SumQtyOver(_, _)
SumQtyOver(d, S) ==
    IF S = {} THEN 0
    ELSE LET k == CHOOSE x \in S : TRUE
         IN  d[k] + SumQtyOver(d, S \ {k})

\* What an order of quantity Q takes at the level of key k of a side whose
\* better levels have the smaller keys (asks by price, bids by -price): what
\* the better levels leave of Q, at most the level's quantity.
TakenAt(d, k, Q) ==
    LET ahead == SumQtyOver(d, {j \in DOMAIN d : j < k})
        left == IF Q > ahead THEN Q - ahead ELSE 0
    IN  IF left < d[k] THEN left ELSE d[k]

\* The sum of taken quantity times price over the levels with keys in S.
RECURSIVE CostOver(_, _, _)
CostOver(d, S, Q) ==
    IF S = {} THEN 0
    ELSE LET k == CHOOSE x \in S : TRUE
         IN  TakenAt(d, k, Q) * (IF k < 0 THEN 0 - k ELSE k) + CostOver(d, S \ {k}, Q)

\* The side a market order of this side is walked against.
Opposite(book, side) == IF side = "BUY" THEN book.asks ELSE book.bids

\* The machine after a fill of qty for cost (in dollars) at fee rate rate,
\* compared with the machine before it.
MovedBy(before, after, side, qty, cost, rate) ==
    LET fee == IF before.fees_enabled THEN cost * rate ELSE 0
    IN  /\ after.balance_usd =
              IF side = "BUY" THEN before.balance_usd - cost * UsdScale - fee
              ELSE before.balance_usd + cost * UsdScale - fee
        /\ after.balance_btc =
              IF side = "BUY" THEN before.balance_btc + qty ELSE before.balance_btc - qty
        /\ after.total_volume_traded = before.total_volume_traded + cost * UsdScale

\* C12: process_market_order on an order it executes fills min(Q, total
\* quantity of the opposite side), for the cost of the levels taken best
\* first, each for min(remaining, level quantity), and finalizes as taker.
C12_MarketWalk ==
    \A order_id \in engine.orders, book \in MarketBooks :
        heap[order_id].status # "FILLED" =>
            LET order == heap[order_id]
                d == Opposite(book, order.side)
                total == SumQtyOver(d, DOMAIN d)
                filled == IF order.quantity < total THEN order.quantity ELSE total
                cost == CostOver(d, DOMAIN d, order.quantity)
                r == process_market_order(Machine(engine, heap), order_id, book)
            IN  /\ r.heap[order_id].status = "FILLED"
                /\ r.heap[order_id].filled_quantity = filled
                /\ r.heap[order_id].average_price.num * filled
                       = cost * r.heap[order_id].average_price.den
                /\ MovedBy(engine, r.engine, order.side, filled, cost, TakerFee)

\* A market order of quantity 2 was filled over two levels, one lot at
\* price 1 and one at price 2.
C12_Witness ==
    \E order_id \in engine.orders :
        /\ heap[order_id].order_type = "MARKET"
        /\ heap[order_id].status = "FILLED"
        /\ heap[order_id].filled_quantity = 2
        /\ heap[order_id].average_price = Rat(3, 2)

\* A market order filled for less than its quantity stays as it is, in every
\* step that keeps it in the catalog.
C13_PartialStaysStep ==
    \A order_id \in OrderIds :
        (/\ order_id \in engine.orders
         /\ order_id \in engine'.orders
         /\ heap[order_id].order_type = "MARKET"
         /\ heap[order_id].status = "FILLED")
            => heap'[order_id] = heap[order_id]

\* A market order walked against a side that holds less than its quantity
\* records what the side held, only that moves the balances, and a second
\* process_market_order, against whatever book, changes nothing.
C13_PartialRecorded ==
    \A order_id \in engine.orders, book \in MarketBooks :
        LET order == heap[order_id]
            d == Opposite(book, order.side)
            total == SumQtyOver(d, DOMAIN d)
            r == process_market_order(Machine(engine, heap), order_id, book)
        IN  (order.order_type = "MARKET" /\ order.status # "FILLED" /\ total < order.quantity)
                => /\ r.heap[order_id].filled_quantity = total
                   /\ MovedBy(engine, r.engine, order.side, total,
                              CostOver(d, DOMAIN d, total), TakerFee)
                   /\ \A later \in MarketBooks : process_market_order(r, order_id, later) = r

\* C13: a market order that meets less liquidity than its quantity is filled
\* for the partial amount, only that amount moves the balances, and no later
\* process_market_order for it changes a balance or a field of the order.
C13_PartialFillFinal == []C13_PartialRecorded /\ [][C13_PartialStaysStep]_vars

\* A market order of quantity 2 is FILLED for 1.
C13_Witness ==
    \E order_id \in engine.orders :
        /\ heap[order_id].order_type = "MARKET"
        /\ heap[order_id].status = "FILLED"
        /\ heap[order_id].quantity = 2
        /\ heap[order_id].filled_quantity = 1
        /\ placing = {}

\* The trade went through the limit price of the order.
Crossing(order, trade) ==
    IF order.side = "BUY" THEN trade.p < order.price ELSE trade.p > order.price

\* The ids of the catalog whose order is an OPEN limit order.
OpenLimits == {order_id \in engine.orders :
                  /\ heap[order_id].order_type = "LIMIT"
                  /\ heap[order_id].status = "OPEN"}

\* The order is filled for its full quantity at its limit price.
FilledAtLimit(objs, order_id) ==
    /\ objs[order_id].status = "FILLED"
    /\ objs[order_id].filled_quantity = objs[order_id].quantity
    /\ objs[order_id].average_price = Rat(objs[order_id].price, 1)

\* C14: a trade crossing a limit price unconditionally fills the order: for
\* every OPEN limit order and every trade through its price that
\* process_limit_orders is given, the order is FILLED afterwards for its full
\* quantity at its limit price, and its fill moves the balances by that
\* quantity at that price with the maker fee.
C14_CrossingFills ==
    \A order_id \in OpenLimits, trade \in Trades :
        Crossing(heap[order_id], trade) =>
            LET order == heap[order_id]
                r == process_limit_orders(Machine(engine, heap), <<trade>>)
                one == LimitStep(Machine(engine, heap), order_id, trade)
            IN  /\ FilledAtLimit(r.m.heap, order_id)
                /\ MovedBy(engine, one.m.engine, order.side, order.quantity,
                           order.quantity * order.price, MakerFee)

\* The trade is at the limit price of the order and its aggressor is on the
\* other side: a sell hitting the bids (m true) for a BUY, a buy hitting the
\* asks (m false) for a SELL.
Advancing(order, trade) ==
    /\ trade.p = order.price
    /\ IF order.side = "BUY" THEN trade.m ELSE ~trade.m

FillPrices(qty) ==
    IF qty = 0 THEN {Rat(0, 1)}
    ELSE {Rat(L, 1) : L \in Prices} \cup {Rat(total_cost, qty) : total_cost \in qty..(qty * MaxPrice)}

\* C16: a single fill moves the balances exactly: a BUY takes qty * P + fee
\* from balance_usd and adds qty to balance_btc, a SELL adds qty * P - fee to
\* balance_usd and takes qty from balance_btc, the fee being qty * P * rate
\* when fees are enabled and 0 otherwise; the equity of the portfolio
\* snapshot marked at the fill price (the average price of a market fill)
\* changes by exactly -fee.
C16_FillMovesBalances ==
    \A oid \in DOMAIN heap, qty \in 0..MaxQty, is_maker \in BOOLEAN :
        \A price \in FillPrices(qty) :
            LET after == finalize_fill(Machine(engine, heap), oid, qty, price, is_maker).engine
                rate == IF is_maker THEN MakerFee ELSE TakerFee
                cost == (qty * price.num) \div price.den
                fee == IF engine.fees_enabled THEN cost * rate ELSE 0
                equity_before == get_portfolio_snapshot(engine, price).equity
                equity_after == get_portfolio_snapshot(after, price).equity
            IN  /\ MovedBy(engine, after, heap[oid].side, qty, cost, rate)
                /\ equity_after.den = equity_before.den
                /\ (equity_after.whole - equity_before.whole) * equity_before.den
                       + (equity_after.num - equity_before.num)
                           = 0 - fee * equity_before.den

\* A SELL limit order of 2 at price 2 was filled from the initial balances
\* with fees enabled: 4 dollars less the maker fee came in, 2 BTC went out.
C16_Witness ==
    /\ \E order_id \in engine.orders :
          /\ heap[order_id].side = "SELL"
          /\ heap[order_id].status = "FILLED"
          /\ heap[order_id].average_price = Rat(2, 1)
    /\ engine.fees_enabled
    /\ engine.balance_usd = (InitialBalanceUsd + 4) * UsdScale - 4 * MakerFee
    /\ engine.balance_btc = 0 - 2

\* The order of this id is in the catalog and OPEN.
IsOpen(order_id) == order_id \in engine.orders /\ heap[order_id].status = "OPEN"

\* C17: cancel_order(id) sets the status to CANCELLED and removes id from the
\* open-order index iff the order is OPEN, and otherwise (unknown, PENDING,
\* FILLED or CANCELLED id) returns False and leaves all state unchanged;
\* cancel_all_orders cancels exactly the OPEN orders, returns their count and
\* leaves the index empty; neither changes a balance.
C17_CancelIffOpen ==
    /\ \A order_id \in 1..(next_order + 1) :
          LET r == cancel_order(Machine(engine, heap), order_id)
          IN  IF IsOpen(order_id)
              THEN /\ r.exc = ""
                   /\ cancel_order_returns(Machine(engine, heap), order_id)
                   /\ r.m.heap[order_id].status = "CANCELLED"
                   /\ ~InList(r.m.engine.open_orders, order_id)
                   /\ Balances(r.m.engine) = Balances(engine)
              ELSE /\ r = Done(Machine(engine, heap))
                   /\ ~cancel_order_returns(Machine(engine, heap), order_id)
    /\ LET r == cancel_all_orders(Machine(engine, heap))
       IN  /\ r.exc = ""
           /\ r.m.engine.open_orders = <<>>
           /\ \A order_id \in engine.orders :
                  r.m.heap[order_id].status =
                      IF IsOpen(order_id) THEN "CANCELLED" ELSE heap[order_id].status
           /\ cancel_all_orders_returns(Machine(engine, heap))
                  = Cardinality({order_id \in engine.orders : IsOpen(order_id)})
           /\ Balances(r.m.engine) = Balances(engine)

\* C18: after cancel_all_orders followed by the submission of M >= 1 LIMIT
\* orders whose place_order calls have all completed, with no trade, cancel
\* or reset in between, the open-order count of the portfolio snapshot is M,
\* however the latency sleeps interleave.
C18_CountAfterCancelAll ==
    (/\ trail.armed
     /\ next_order > trail.base
     /\ \A order_id \in placing : order_id <= trail.base)
        => get_portfolio_snapshot(engine, Rat(0, 1)).open_orders = next_order - trail.base

\* With fees disabled, a market BUY (order 1) and then a market SELL (order 2)
\* of the same quantity were executed against order_book, from the initial
\* balances.
RoundTripDone ==
    /\ ~engine.fees_enabled
    /\ engine.orders = {1, 2}
    /\ heap[1].side = "BUY" /\ heap[1].status = "FILLED"
    /\ heap[2].side = "SELL" /\ heap[2].status = "FILLED"
    /\ heap[1].quantity = heap[2].quantity

\* The dollars the BUY of the round trip paid and the SELL received, and the
\* quantity each side of the book holds.
CostBuy == CostOver(order_book.asks, DOMAIN order_book.asks, heap[1].quantity)
CostSell == CostOver(order_book.bids, DOMAIN order_book.bids, heap[2].quantity)
AskTotal == SumQtyOver(order_book.asks, DOMAIN order_book.asks)
BidTotal == SumQtyOver(order_book.bids, DOMAIN order_book.bids)

\* C19 as stated: after the round trip balance_btc is where it was and
\* balance_usd has changed by -(cost_buy - cost_sell), for every book and
\* every Q > 0.
C19_RoundTrip ==
    RoundTripDone =>
        /\ engine.balance_btc = 0
        /\ engine.balance_usd = (InitialBalanceUsd - (CostBuy - CostSell)) * UsdScale

\* C19: round trip: with fees disabled and an unchanging book, a market BUY of
\* Q and then a market SELL of Q change balance_usd by
\* -(cost_buy - cost_sell), for every book and every Q > 0, and change
\* balance_btc by what the BUY filled less what the SELL filled, which is 0
\* when each side of the book holds at least Q.
C19_RoundTripFilled ==
    RoundTripDone =>
        /\ engine.balance_usd = (InitialBalanceUsd - (CostBuy - CostSell)) * UsdScale
        /\ engine.balance_btc = Min(heap[1].quantity, AskTotal) - Min(heap[2].quantity, BidTotal)
        /\ (AskTotal >= heap[1].quantity /\ BidTotal >= heap[2].quantity)
               => engine.balance_btc = 0

\* A round trip of 2 on a book that holds 2 on each side, bought dearer than
\* sold.
C19_Witness ==
    /\ RoundTripDone
    /\ heap[1].quantity = 2
    /\ AskTotal >= 2 /\ BidTotal >= 2
    /\ CostBuy > CostSell
    /\ placing = {}

\* C20: after reset(), from any reachable state, balance_usd is the initial
\* USD balance the engine was constructed with, balance_btc, the traded
\* notional and the realized PnL are 0, and the order catalog and the
\* open-order index are empty.
C20_ResetRestores ==
    LET after == reset(Machine(engine, heap)).engine
    IN  /\ after.balance_usd = trail.capital * UsdScale
        /\ after.balance_btc = 0
        /\ after.total_volume_traded = 0
        /\ after.realized_pnl = 0
        /\ after.orders = {}
        /\ after.open_orders = <<>>

\* C21: a place_order cancelled during its latency sleep mutates no account
\* state: the cancellation leaves the balances, the traded notional and the
\* open-order index as they are, and the order of a cancelled call never
\* becomes OPEN or FILLED afterwards.
C21_CancelledPlacementInert ==
    /\ \A order_id \in placing :
          LET after == place_order_cancelled(Machine(engine, heap), order_id).engine
          IN  /\ Balances(after) = Balances(engine)
              /\ after.total_volume_traded = engine.total_volume_traded
              /\ after.open_orders = engine.open_orders
    /\ \A order_id \in trail.dropped :
          order_id \in engine.orders =>
              heap[order_id].status # "OPEN" /\ heap[order_id].status # "FILLED"

\* C22: a submission with invalid input (quantity <= 0, or a side or type
\* outside BUY/SELL and MARKET/LIMIT) is rejected before any latency sleep and
\* leaves the order catalog, the open-order index and the balances
\* unchanged; so the catalog never holds an order with such fields.
C22_InvalidRejected ==
    /\ \A side \in AnySides, order_type \in AnyTypes, quantity \in AnyQuantities, price \in Prices :
          ~ValidInput(side, order_type, quantity) =>
              LET after == place_order_submit(Machine(engine, heap), next_order + 1,
                                              side, order_type, quantity, price).engine
              IN  /\ after.orders = engine.orders
                  /\ after.open_orders = engine.open_orders
                  /\ Balances(after) = Balances(engine)
    /\ \A order_id \in engine.orders :
          ValidInput(heap[order_id].side, heap[order_id].order_type, heap[order_id].quantity)

\* The sum of the first n entries of w, from the last of them back.
RECURSIVE SumFirst(_, _)
SumFirst(w, n) == IF n = 0 THEN 0 ELSE SumFirst(w, n - 1) + w[n]

\* The depths a ladder payload is asked for; the server asks for 10.
Depths == {1, 2, 10}

\* The step applies a diff that pushes a contribution: the diff is applied,
\* both sides were remembered before it and both are there after it.
Pushes ==
    /\ order_book.last_update_id # None
    /\ order_book'.last_update_id # order_book.last_update_id
    /\ order_book.prev_best_bid # None /\ order_book.prev_best_ask # None
    /\ HasLevels(order_book')

\* A push below capacity appends; a push at capacity evicts the oldest entry
\* and keeps the order of the rest; no other step changes the window.
C23_PushStep ==
    LET w == order_book.ofi_window
        after == order_book'.ofi_window
    IN  IF Pushes
        THEN IF Len(w) < OfiWindowMaxLen
             THEN Len(after) = Len(w) + 1 /\ SubSeq(after, 1, Len(w)) = w
             ELSE /\ Len(after) = OfiWindowMaxLen
                  /\ SubSeq(after, 1, OfiWindowMaxLen - 1) = Tail(w)
        ELSE after = w

\* The window holds at most 50 contributions and the ofi of a ladder payload
\* is their sum.
C23_WindowSummed ==
    /\ Len(order_book.ofi_window) <= OfiWindowMaxLen
    /\ \A depth \in Depths :
          ladder_payload(order_book, depth).metrics.ofi
              = SumFirst(order_book.ofi_window, Len(order_book.ofi_window))

\* C23: the OFI window never holds more than 50 contributions, a push at
\* capacity evicts exactly the oldest entry and keeps the order of the rest,
\* and the ofi of every ladder payload is the sum of the contributions in the
\* window (0 when it is empty).
C23_OfiWindow == []C23_WindowSummed /\ [][C23_PushStep]_vars

\* The window is full after more than 50 pushes, and its entries differ.
C23_Witness ==
    /\ Len(order_book.ofi_window) = OfiWindowMaxLen
    /\ order_book.last_update_id > OfiWindowMaxLen
    /\ order_book.ofi_window[1] # order_book.ofi_window[2]

\* The top of the book as the metric pipeline reads it: price and quantity of
\* the best level of each side, 0 for a side that is empty.
TopOfBook(self) ==
    [bid |-> IF DOMAIN self.bids # {} THEN 0 - peekitem0(self.bids)[1] ELSE 0,
     bid_qty |-> IF DOMAIN self.bids # {} THEN peekitem0(self.bids)[2] ELSE 0,
     ask |-> IF DOMAIN self.asks # {} THEN peekitem0(self.asks)[1] ELSE 0,
     ask_qty |-> IF DOMAIN self.asks # {} THEN peekitem0(self.asks)[2] ELSE 0]

\* The top of the book the replica remembers.
Remembered(self) ==
    [bid |-> self.prev_best_bid, bid_qty |-> self.prev_best_bid_qty,
     ask |-> self.prev_best_ask, ask_qty |-> self.prev_best_ask_qty]

\* A step that is an apply_diff call: an applied diff pushes the contribution
\* of the remembered top and the new top and remembers the new top; a stale
\* or failed event leaves the window as it is.
C24_DiffStep ==
    last_call'.op = "apply_diff" =>
        LET was == Remembered(order_book)
            now == TopOfBook(order_book')
        IN  IF last_call'.exc = "" /\ ~last_call'.stale
            THEN /\ order_book'.ofi_window =
                        DequeAppend(order_book.ofi_window,
                                    calculate_ofi_step(now.bid, now.bid_qty, was.bid, was.bid_qty,
                                                       now.ask, now.ask_qty, was.ask, was.ask_qty))
                 /\ Remembered(order_book') = now
            ELSE order_book'.ofi_window = order_book.ofi_window

\* C24: every successfully applied diff pushes exactly one OFI contribution,
\* computed from the top-of-book remembered before the diff and the
\* top-of-book after it, and then replaces the memory with the new
\* top-of-book; dropped (stale) and failed events push nothing.
C24_OneContributionPerDiff == [][C24_DiffStep]_vars

\* The prices and quantities calculate_ofi_step is handed: 0 stands for an
\* empty side.  The top of the book the replica remembers is among them.
StepPrices == (0..MaxPrice) \cup ({order_book.prev_best_bid, order_book.prev_best_ask} \ {None})
StepQtys == (0..MaxQty) \cup ({order_book.prev_best_bid_qty, order_book.prev_best_ask_qty} \ {None})

\* C25: calculate_ofi_step returns e_bid - e_ask for every input, e_bid being
\* +q_bid_now if the best bid rose, -q_bid_prev if it fell and
\* q_bid_now - q_bid_prev if it is unchanged, e_ask being +q_ask_now if the
\* best ask fell, -q_ask_prev if it rose and q_ask_now - q_ask_prev if it is
\* unchanged.
C25_OfiStep ==
    \A bb_now \in StepPrices, bb_prev \in StepPrices, ba_now \in StepPrices, ba_prev \in StepPrices :
        \A qb_now \in StepQtys, qb_prev \in StepQtys, qa_now \in StepQtys, qa_prev \in StepQtys :
            LET step == calculate_ofi_step(bb_now, qb_now, bb_prev, qb_prev,
                                           ba_now, qa_now, ba_prev, qa_prev)
            IN  /\ (bb_now > bb_prev /\ ba_now < ba_prev) => step = qb_now - qa_now
                /\ (bb_now > bb_prev /\ ba_now > ba_prev) => step = qb_now + qa_prev
                /\ (bb_now > bb_prev /\ ba_now = ba_prev) => step = qb_now - (qa_now - qa_prev)
                /\ (bb_now < bb_prev /\ ba_now < ba_prev) => step = (0 - qb_prev) - qa_now
                /\ (bb_now < bb_prev /\ ba_now > ba_prev) => step = (0 - qb_prev) + qa_prev
                /\ (bb_now < bb_prev /\ ba_now = ba_prev) => step = (0 - qb_prev) - (qa_now - qa_prev)
                /\ (bb_now = bb_prev /\ ba_now < ba_prev) => step = (qb_now - qb_prev) - qa_now
                /\ (bb_now = bb_prev /\ ba_now > ba_prev) => step = (qb_now - qb_prev) + qa_prev
                /\ (bb_now = bb_prev /\ ba_now = ba_prev)
                       => step = (qb_now - qb_prev) - (qa_now - qa_prev)

\* A diff was applied to a two-sided book and its contribution, not zero, is
\* in the window.
C25_Witness ==
    /\ HasLevels(order_book)
    /\ order_book.ofi_window # <<>>
    /\ order_book.ofi_window[1] # 0

\* The quantities of the trades with m false less those with m true.
RECURSIVE SignedVolume(_)
SignedVolume(trades) ==
    IF trades = <<>> THEN 0
    ELSE (IF trades[1].m THEN 0 - trades[1].q ELSE trades[1].q) + SignedVolume(Tail(trades))

\* The replica after process_trade for each trade in turn.
RECURSIVE AfterTrades(_, _)
AfterTrades(self, trades) ==
    IF trades = <<>> THEN self
    ELSE AfterTrades(process_trade(self, trades[1]), Tail(trades))

\* Whatever trades come next, CVD moves by their signed volume and nothing
\* else of the replica changes.
C26_TradesOnlyMoveCvd ==
    \A trades \in SeqsUpTo(Trades, 2) :
        AfterTrades(order_book, trades)
            = [order_book EXCEPT !.cvd = @ + SignedVolume(trades)]

\* A step that is not a process_trade call leaves CVD as it is.
C26_OthersKeepCvd ==
    last_call'.op # "process_trade" => order_book'.cvd = order_book.cvd

\* C26: after any sequence of trades CVD is the sum of the quantities of the
\* trades with m false less the sum of those with m true; process_trade
\* changes nothing but CVD, and no depth event or snapshot reload changes
\* CVD.
C26_Cvd == []C26_TradesOnlyMoveCvd /\ [][C26_OthersKeepCvd]_vars

\* CVD is negative after a sell trade and a snapshot load that came after it.
C26_Witness ==
    /\ order_book.cvd < 0
    /\ last_call.op = "load_snapshot"
    /\ Loaded(order_book)

\* The prices a side of the replica holds: bids are keyed by the negated price.
BidPrices == {0 - k : k \in DOMAIN order_book.bids}
AskPrices == DOMAIN order_book.asks

\* levels lists, best first, exactly the n best of the prices in P with the
\* quantities in qty; Better(a, b) says price a is better than price b.
BestLevels(levels, n, P, qty(_), Better(_, _)) ==
    /\ Len(levels) <= n
    /\ \A i, j \in 1..Len(levels) : i < j => Better(levels[i][1], levels[j][1])
    /\ {levels[i][1] : i \in 1..Len(levels)}
           = {k \in P : Cardinality({h \in P : Better(h, k)}) < n}
    /\ \A i \in 1..Len(levels) : levels[i][2] = qty(levels[i][1])

\* C27: in every ladder payload the bids are in strictly descending price
\* order and the asks in strictly ascending price order, each list has at
\* most N entries, and the lists are exactly the N best levels of the
\* current book on each side.
C27_LadderLists ==
    \A depth \in Depths :
        LET payload == ladder_payload(order_book, depth)
            bid_qty(k) == order_book.bids[0 - k]
            ask_qty(k) == order_book.asks[k]
        IN  /\ BestLevels(payload.bids, depth, BidPrices, bid_qty,
                          LAMBDA a, b : a > b)
            /\ BestLevels(payload.asks, depth, AskPrices, ask_qty,
                          LAMBDA a, b : a < b)

\* Each side holds more levels than the smallest depth asks for.
C27_Witness ==
    /\ Cardinality(BidPrices) > 1
    /\ Cardinality(AskPrices) > 1
    /\ Len(ladder_payload(order_book, 1).bids) = 1
    /\ Len(ladder_payload(order_book, 2).asks) = 2

\* A side of the replica holds no level.
SideAbsent == BidPrices = {} \/ AskPrices = {}

\* The payload of a book with an absent side: that side's list is empty and
\* spread, mid and micro are 0.
AbsentSideZeros(payload) ==
    /\ BidPrices = {} => payload.bids = <<>>
    /\ AskPrices = {} => payload.asks = <<>>
    /\ payload.metrics.spread = 0
    /\ payload.metrics.mid.num = 0
    /\ payload.metrics.micro.num = 0

\* C28 as stated: when a side of the book is absent, the ladder payload
\* carries an empty array for that side and spread, mid, micro and imb are
\* all 0.
C28_AbsentSideAllZero ==
    SideAbsent =>
        \A depth \in Depths :
            LET payload == ladder_payload(order_book, depth)
            IN  AbsentSideZeros(payload) /\ payload.metrics.imb.num = 0

\* C28: when a side of the book is absent, the ladder payload carries an
\* empty array for that side and spread, mid and micro are 0; imb is 0 when
\* the listed levels of the other side carry no volume either, 1 when only
\* bids carry volume and -1 when only asks do.
C28_AbsentSide ==
    SideAbsent =>
        \A depth \in Depths :
            LET payload == ladder_payload(order_book, depth)
                imb == payload.metrics.imb
                volume == SumQty(payload.bids) + SumQty(payload.asks)
            IN  /\ AbsentSideZeros(payload)
                /\ imb.den > 0
                /\ volume = 0 => imb.num = 0
                /\ volume > 0 /\ AskPrices = {} => imb.num = imb.den
                /\ volume > 0 /\ BidPrices = {} => imb.num = 0 - imb.den

\* A loaded book with bids and no asks.
C28_Witness ==
    /\ Loaded(order_book)
    /\ BidPrices # {}
    /\ AskPrices = {}
    /\ ladder_payload(order_book, 10).metrics.imb.num > 0

\* The fraction r lies between lo and hi inclusive (r.den > 0).
Between(lo, r, hi) == lo * r.den <= r.num /\ r.num <= hi * r.den

\* imb is in [-1, 1], and mid and micro lie between the smaller and the
\* larger of the two best prices.
RangesWhateverTheOrder(payload) ==
    LET best_bid == get_best_bid(order_book)
        best_ask == get_best_ask(order_book)
        lo == Min(best_bid, best_ask)
        hi == IF best_bid <= best_ask THEN best_ask ELSE best_bid
        m == payload.metrics
    IN  /\ m.imb.den > 0 /\ Between(0 - 1, m.imb, 1)
        /\ m.mid.den > 0 /\ Between(lo, m.mid, hi)
        /\ m.micro.den > 0 /\ Between(lo, m.micro, hi)

\* With both sides present, imb, mid and micro stay in the ranges that do not
\* depend on the best bid being below the best ask.
C29_RangesOfCrossedToo ==
    ~SideAbsent =>
        \A depth \in Depths : RangesWhateverTheOrder(ladder_payload(order_book, depth))

\* C29: for every ladder payload built in a reachable state of the replica
\* with both sides non-empty, imb is in [-1, 1], spread >= 0, and both mid
\* and micro lie between best bid and best ask inclusive.
C29_PayloadRanges ==
    ~SideAbsent =>
        \A depth \in Depths :
            LET payload == ladder_payload(order_book, depth)
                best_bid == get_best_bid(order_book)
                best_ask == get_best_ask(order_book)
                m == payload.metrics
            IN  /\ m.imb.den > 0 /\ Between(0 - 1, m.imb, 1)
                /\ m.spread >= 0
                /\ m.mid.den > 0 /\ Between(best_bid, m.mid, best_ask)
                /\ m.micro.den > 0 /\ Between(best_bid, m.micro, best_ask)

\* The step is a depth message whose apply_diff failure ends the session:
\* any exception but the "Bridging failed" the listener passes over.
FatalReplicaError ==
    /\ pc = "streaming"
    /\ pc' # "streaming"
    /\ last_call' # last_call
    /\ last_call'.op = "apply_diff"
    /\ last_call'.exc \notin {"", "Bridging failed"}

\* A fatal error of the replica puts the listener in its one-second sleep.
C30_FatalStep == FatalReplicaError => pc' = "backoff"

\* C30: every fatal Book Replica error in the feed task (ID GAP, crossed
\* book, or any other apply_diff failure that ends the session) is followed
\* by a backoff step of at least 1 second before the next connection attempt
\* and snapshot reload; the session never goes from the error straight to
\* reconnecting.
C30_BackoffAfterFatalError == [][C30_FatalStep]_vars

\* Neither task has ended: each is at one of the places its loop suspends.
C31_TasksAlive ==
    /\ pc \in {"connecting", "streaming", "backoff"}
    /\ broadcaster.pc \in {"sleeping", "sending", "recovering"}

MalformedEventStep ==
    /\ pc = "streaming"
    /\ last_call' # last_call
    /\ last_call'.op = "apply_diff"
    /\ last_call'.exc = "ValueError"

\* The malformed event leaves the replica as it was.
C32_ReplicaUntouched == [][MalformedEventStep => order_book' = order_book]_vars

\* The malformed event leaves the session open.
C32_SessionContinues == [][MalformedEventStep => pc' = "streaming"]_vars

\* C32: a depth event with a malformed field (a non-numeric price or quantity
\* in one of its deltas) is skipped without mutating the replica: bids, asks,
\* last_update_id, top-of-book memory and OFI window are as before the
\* event, and the feed session continues with the next event.
C32_MalformedEventSkipped ==
    [][MalformedEventStep => (order_book' = order_book /\ pc' = "streaming")]_vars

\* A payload is built in this step: it is the payload of the book of this
\* very state, which no listener step is changing.
PayloadFromOneBook ==
    broadcaster'.payload # broadcaster.payload =>
        /\ broadcaster'.payload = ladder_payload(order_book, 10)
        /\ order_book' = order_book

\* A MARKET order is filled in this step: it is filled as a walk of the book
\* of this very state fills it, and no listener step is changing that book.
MarketFillFromOneBook ==
    \A order_id \in DOMAIN heap \cap DOMAIN heap' :
        (/\ heap[order_id].order_type = "MARKET"
         /\ heap'[order_id] # heap[order_id]
         /\ heap'[order_id].status # "PENDING") =>
            LET m == process_market_order(Machine(engine, heap), order_id, order_book)
            IN  /\ engine' = m.engine
                /\ heap'[order_id] = m.heap[order_id]
                /\ order_book' = order_book

\* The lists and the metrics of the payload built last are those of one book.
PayloadOfOneBook ==
    LET payload == broadcaster.payload
        best_bid == IF payload.bids = <<>> THEN None ELSE payload.bids[1][1]
        best_ask == IF payload.asks = <<>> THEN None ELSE payload.asks[1][1]
        best_bid_qty == IF payload.bids = <<>> THEN 0 ELSE payload.bids[1][2]
        best_ask_qty == IF payload.asks = <<>> THEN 0 ELSE payload.asks[1][2]
    IN  payload # <<>> =>
            /\ payload.metrics.imb = calculate_imbalance(payload.bids, payload.asks, 10)
            /\ payload.metrics.spread = calculate_spread(best_bid, best_ask)
            /\ payload.metrics.micro
                   = calculate_microprice(best_bid, best_ask, best_bid_qty, best_ask_qty)

\* C33: no depth diff is applied in the middle of a ladder_payload build or
\* of a market-order walk: under every scheduling of the feed task, the
\* broadcaster and the order handlers, each payload and each market fill is
\* computed from a book state that existed between two whole apply_diff
\* calls.
C33_NoTornReads ==
    /\ []PayloadOfOneBook
    /\ [][PayloadFromOneBook /\ MarketFillFromOneBook]_vars

\* A payload built before the diff that changed the book, a MARKET order
\* filled after it.
C33_Witness ==
    /\ broadcaster.payload # <<>>
    /\ broadcaster.payload.asks # <<>>
    /\ order_book.last_update_id > 0
    /\ broadcaster.payload.asks # top_levels(order_book, "asks", 10)
    /\ \E order_id \in DOMAIN heap :
           /\ heap[order_id].order_type = "MARKET"
           /\ heap[order_id].status = "FILLED"

\* The listener handles a trade message in this step: CVD moves.
TradeEventStep == order_book'.cvd # order_book.cvd

\* The trade's CVD update is whole: the replica after the step is the one
\* process_trade gives.
C34_CvdUpdated ==
    [][TradeEventStep => \E trade \in Trades : order_book' = process_trade(order_book, trade)]_vars

\* C34: for each trade event received from the feed, the CVD update and the
\* advancement of the open limit orders against that trade both take place,
\* and both complete before the next feed event is processed.
C34_TradeAdvancesBoth ==
    [][TradeEventStep =>
          \E trade \in Trades :
              LET r == process_limit_orders(Machine(engine, heap), <<trade>>)
              IN  /\ order_book' = process_trade(order_book, trade)
                  /\ engine' = r.m.engine
                  /\ \A order_id \in DOMAIN heap' : heap'[order_id] = r.m.heap[order_id]]_vars

\* The ids in the open-order index.
Indexed == {engine.open_orders[i] : i \in 1..Len(engine.open_orders)}

\* An order whose place_order is suspended is not in the open-order index,
\* and no trade stream advances or fills it.
C35_SuspendedOutOfReach ==
    \A order_id \in placing :
        /\ order_id \notin Indexed
        /\ \A trade_stream \in TradeStreams :
               LET r == process_limit_orders(Machine(engine, heap), trade_stream)
               IN  r.exc = "" => r.m.heap[order_id] = heap[order_id]

\* When a suspended place_order returns, a LIMIT order is OPEN, in the
\* index, with processed_volume 0; a MARKET order and the balances are as
\* they were.
C35_Ack ==
    \A order_id \in placing :
        LET m == place_order_ack(Machine(engine, heap), order_id)
        IN  IF heap[order_id].order_type = "LIMIT"
            THEN /\ m.heap[order_id].status = "OPEN"
                 /\ \E i \in 1..Len(m.engine.open_orders) : m.engine.open_orders[i] = order_id
                 /\ m.heap[order_id].processed_volume = 0
            ELSE /\ m.heap[order_id] = heap[order_id]
                 /\ Balances(m.engine) = Balances(engine)

\* What of the claim holds in every interleaving.
C35_SleepAndAck == C35_SuspendedOutOfReach /\ C35_Ack

\* C35: while a place_order call is suspended in its latency sleep the order
\* is in the catalog with status PENDING and is not in the open-order index,
\* so no trade processed during the sleep advances or fills it; when the
\* call returns, a LIMIT order is OPEN, in the index, with processed_volume
\* 0, and a MARKET order is still PENDING with balances unchanged until
\* process_market_order is invoked.
C35_PendingWhileSuspended ==
    \A order_id \in placing :
        /\ order_id \in engine.orders
        /\ heap[order_id].status = "PENDING"
        /\ order_id \notin Indexed

\* C36: every id in the open-order index is a key of the order catalog, in
\* every reachable state, including when reset or cancel_all_orders runs
\* while a place_order call is suspended in its latency sleep; hence
\* process_limit_orders and cancel_all_orders never fail on a missing order.
C36_IndexInCatalog ==
    /\ Indexed \subseteq engine.orders
    /\ \A trade_stream \in TradeStreams :
           process_limit_orders(Machine(engine, heap), trade_stream).exc = ""
    /\ cancel_all_orders(Machine(engine, heap)).exc = ""

\* A fill that moved the balances has been finalized for the one order of
\* the run (MaxOrders = 1), and the step is no reset.
AlreadyFinalized ==
    /\ next_order = 1
    /\ engine.total_volume_traded > 0
    /\ engine'.total_volume_traded > 0

\* C37: each order moves the balances at most once: over any sequence of
\* place_order, process_market_order, process_limit_orders, cancel_order and
\* cancel_all_orders calls, a fill is finalized for a given order id at most
\* one time, whatever the order's type.
C37_FinalizedOnce ==
    [][AlreadyFinalized =>
          /\ engine'.total_volume_traded = engine.total_volume_traded
          /\ Balances(engine') = Balances(engine)]_vars

\* A contribution is pushed in this step.
Pushed == order_book'.ofi_window # order_book.ofi_window

\* A push happens only with a best bid and a best ask in the book after the
\* diff.
C38_PushNeedsCurrentTop == [][Pushed => HasLevels(order_book')]_vars

\* C38: an OFI contribution is pushed only when both the remembered previous
\* top-of-book and the current top-of-book have a best bid and a best ask: a
\* diff applied while one side is empty, or right after a diff that left a
\* side empty, pushes no contribution computed from a placeholder price or
\* quantity.
C38_PushNeedsBothTops ==
    [][Pushed =>
          /\ HasLevels(order_book')
          /\ order_book.prev_best_bid > 0
          /\ order_book.prev_best_ask > 0]_vars


\* ------------------------------------------------------------------- C39
\* The listener's load_snapshot call got this response.
LoadedFrom(response) ==
    /\ Connected(response)
    /\ response \in QuietResponses \cup DamagedResponses

\* What load_snapshot is said to leave alone when it fails.
BookAsBefore ==
    /\ order_book'.bids = order_book.bids
    /\ order_book'.asks = order_book.asks
    /\ order_book'.last_update_id = order_book.last_update_id
    /\ order_book'.prev_best_bid = order_book.prev_best_bid
    /\ order_book'.prev_best_bid_qty = order_book.prev_best_bid_qty
    /\ order_book'.prev_best_ask = order_book.prev_best_ask
    /\ order_book'.prev_best_ask_qty = order_book.prev_best_ask_qty

\* A request that fails (raise_for_status, the network) leaves the replica
\* as it was.
C39_FailedFetchKeepsBook ==
    [][\A response \in QuietResponses :
          (LoadedFrom(response) /\ ~response.ok) => BookAsBefore]_vars

\* C39: load_snapshot is all-or-nothing: when the fetch or the parsing of the
\* snapshot fails, bids, asks, last_update_id and the top-of-book memory are
\* as before the call.
C39_LoadAllOrNothing ==
    [][\A response \in QuietResponses \cup DamagedResponses :
          (LoadedFrom(response) /\ (~response.ok \/ response \in DamagedResponses))
              => BookAsBefore]_vars


\* ------------------------------------------------------------------- C40
\* sum of order.quantity over the orders of the catalog
RECURSIVE OrderedQuantity(_)
OrderedQuantity(ids) ==
    IF ids = {} THEN 0
    ELSE LET order_id == CHOOSE x \in ids : TRUE
         IN  heap[order_id].quantity + OrderedQuantity(ids \ {order_id})

\* An algorithm that has become inactive places nothing more.
C40_InactivePlacesNothing ==
    [][(twap.made /\ ~twap.is_active) => engine'.orders = engine.orders]_vars

\* Every order placed is counted once its invocation has resumed.
C40_CountedWhenResumed ==
    twap.made =>
        Cardinality(engine.orders) = twap.slices_executed + Cardinality(twap.suspended)

\* C40: a TWAP instance places at most num_slices orders and their quantities
\* sum to at most the total quantity, overlapping on_tick invocations
\* included.
C40_AtMostNumSlices ==
    twap.made =>
        /\ Cardinality(engine.orders) <= twap.num_slices
        /\ OrderedQuantity(engine.orders) <= twap.total_quantity

====
